---- MODULE Spec2Model ----
(***************************************************************************)
(* Resilience layer of the RAG platform: the circuit breaker and gateway   *)
(* of src/src/service-integration.py, the admission middleware and the     *)
(* permission dependency of src/src/security-config.py, the retry wrapper  *)
(* of src/src/error-handling.py, the POST /query handler of                *)
(* src/src/api/main.py and the document store of                           *)
(* src/src/chroma_optimized.py.                                            *)
(*                                                                         *)
(* Scheduling: the code is asyncio code.  A coroutine runs without         *)
(* interruption from one suspension point (an await that really waits: the *)
(* network request, the backoff sleep, call_next) to the next, so each     *)
(* action below is the code between two suspension points.                 *)
(*                                                                         *)
(* Time: time.time() and datetime.utcnow() are read as the variable now,   *)
(* an integer number of ticks that only a tick action advances.            *)
(* service-integration.py calls time.time() without importing time, and    *)
(* security-config.py calls os.getenv without importing os; both names are *)
(* read as the standard library's modules.  The third-party calls (the     *)
(* backoff decorator, aiohttp, jose, prometheus_client) behave as their    *)
(* documentation says.                                                     *)
(***************************************************************************)
EXTENDS Integers, Sequences, FiniteSets, TLC

(* ---- bounds of the model ---- *)
\* concurrent coroutines inside CircuitBreaker.call
NCallers == 3
\* the clock stops advancing here
MaxTime == 5
\* failures is unbounded in the code; the model stops failing calls here
MaxFailures == 4

\* constructor arguments of the breakers under check
Thresholds == {1, 2, 3}
ResetTimeouts == {1, 2}

Callers == 1..NCallers

\* the model stops failing gateway attempts at this failure count
MaxGwFailures == 6
\* the clock of the gateway's runs stops advancing here
MaxGwTime == 3

\* two concurrent invocations of ServiceIntegration.call_service
GwCalls == {1, 2}

VARIABLES
    now,    \* the clock
    cb,     \* one CircuitBreaker object
    cpc,    \* position of each coroutine in CircuitBreaker.call
    services,           \* ServiceIntegration.services
    circuit_breakers,   \* ServiceIntegration.circuit_breakers
    gpc,        \* position of each gateway call
    gsvc,       \* its service_name argument
    tries,      \* the retry decorator's count of invocations of call_service
    gerr,       \* the exception a finished gateway call raised
    added,      \* failures the gateway call has added to its breaker so far
    recorded,   \* increments of request_counter the gateway call has made so far
    detached,   \* the breaker object the call holds is no longer the registered one
    token_blacklist,    \* SecurityManager._token_blacklist
    rate_limiters,      \* SecurityManager._rate_limiters
    rpc,        \* position of each request in SecurityMiddleware.__call__
    rtok,       \* its token ("" when it bears none)
    rstatus,    \* how it ended: 0 not yet, else the status of its response
    max_retries,    \* with_error_handling's arguments, fixed at decoration
    retry_delay,
    wpc,        \* position of the call of the wrapper
    retries,    \* the wrapper's local retries
    last_error, \* the wrapper's local last_error
    invocations,    \* how often this call of the wrapper has invoked func
    errors,     \* the exceptions func has raised in this call, in order
    sleeps,     \* the delays this call has passed to asyncio.sleep, in order
    handled,    \* how often this call has invoked a registered error handler
    cancel_requested,   \* the task running the call has been cancelled
    wout,       \* what the call ended with: func's result or the exception
    ppc,        \* which permission check has just been made, "idle" if none
    ptok,       \* the bearer token of the request it was made for
    preq,       \* the permissions it required
    pres,       \* its outcome: a status and, for check_permission, the answer
    qpc,        \* position of each POST /query request
    qchroma,    \* what collection.query did for it
    qmodel,     \* what the model service's POST did for it
    qstatus,    \* the status of its response, 0 while there is none
    qbody,      \* the body of its response
    collection,         \* the ChromaDB collection: its documents by id
    query_cache,        \* OptimizedChromaDB.query_cache
    embedding_cache,    \* the contents OptimizedChromaDB.embedding_cache holds
    empty_add_raises,       \* this chromadb rejects an add of no documents
    duplicate_add_raises,   \* this chromadb rejects an add of an id it has
    apc,        \* position of the add_documents or update_documents in progress
    ainput,     \* the documents it was called with
    abatch_size,    \* its batch_size
    adocuments, \* its local documents
    ai,         \* its loop index i
    submitted,  \* the batches it has passed to collection.add, in order
    answer      \* what the last query_documents returned

breakerVars == <<cb, cpc>>
gatewayVars == <<services, circuit_breakers, gpc, gsvc, tries, gerr, added,
                 recorded, detached>>
securityVars == <<token_blacklist, rate_limiters, rpc, rtok, rstatus>>
retryVars == <<max_retries, retry_delay, wpc, retries, last_error, invocations,
               errors, sleeps, handled, cancel_requested, wout>>
permVars == <<ppc, ptok, preq, pres>>
apiVars == <<qpc, qchroma, qmodel, qstatus, qbody>>
chromaVars == <<collection, query_cache, embedding_cache, empty_add_raises,
                duplicate_add_raises, apc, ainput, abatch_size, adocuments, ai,
                submitted, answer>>
vars == <<now, cb, cpc, services, circuit_breakers, gpc, gsvc, tries, gerr, added,
          recorded, detached,
          token_blacklist, rate_limiters, rpc, rtok, rstatus,
          max_retries, retry_delay, wpc, retries, last_error, invocations,
          errors, sleeps, handled, cancel_requested, wout,
          ppc, ptok, preq, pres, qpc, qchroma, qmodel, qstatus, qbody,
          collection, query_cache, embedding_cache, empty_add_raises,
          duplicate_add_raises, apc, ainput, abatch_size, adocuments, ai,
          submitted, answer>>

\* what the steps of one component leave alone
notBreaker == <<gatewayVars, securityVars, retryVars, permVars, apiVars, chromaVars>>
notGateway == <<breakerVars, securityVars, retryVars, permVars, apiVars, chromaVars>>
notSecurity == <<breakerVars, gatewayVars, retryVars, permVars, apiVars, chromaVars>>
notRetry == <<now, breakerVars, gatewayVars, securityVars, permVars, apiVars, chromaVars>>
notPermissions == <<now, breakerVars, gatewayVars, retryVars, apiVars, chromaVars,
                    rate_limiters, rpc, rtok, rstatus>>
notApi == <<now, breakerVars, gatewayVars, securityVars, retryVars, permVars,
           chromaVars>>
notChroma == <<now, breakerVars, gatewayVars, securityVars, retryVars, permVars,
              apiVars>>

(* ---- CircuitBreaker ---- *)

\* CircuitBreaker.__init__
CircuitBreaker(th, rt) ==
    [threshold |-> th, reset_timeout |-> rt, failures |-> 0,
     last_failure_time |-> 0, state |-> "closed"]

\* faulty variant of ResetElapsed: the comparison admits at exactly reset_timeout
ResetElapsedAtBoundary(b, t) == t - b.last_failure_time >= b.reset_timeout

\* time.time() - self.last_failure_time > self.reset_timeout
ResetElapsed(b, t) == t - b.last_failure_time > b.reset_timeout

\* the call raises "Circuit breaker is open" before func is awaited
CBDenies(b, t) == b.state = "open" /\ ~ResetElapsed(b, t)

\* faulty variant of CBEnter: an Open breaker whose timeout has elapsed admits
\* the call without becoming HalfOpen
CBEnterStaysOpen(b, t) == b

\* the breaker as an admitted call leaves it before awaiting func
CBEnter(b, t) ==
    IF b.state = "open" /\ ResetElapsed(b, t)
    THEN [b EXCEPT !.state = "half-open"]
    ELSE b

\* faulty variant of CBSuccess: any success closes the breaker, whatever its state
CBSuccessAlwaysCloses(b) == [b EXCEPT !.state = "closed", !.failures = 0]

\* faulty variant of CBSuccess: any success clears the failure count, but only
\* one in HalfOpen changes the state
CBSuccessClearsCount(b) ==
    [b EXCEPT !.failures = 0,
              !.state = IF @ = "half-open" THEN "closed" ELSE @]

\* func returned
CBSuccess(b) ==
    IF b.state = "half-open"
    THEN [b EXCEPT !.state = "closed", !.failures = 0]
    ELSE b

\* faulty variant of CBFailure: the time of the failure is not recorded
CBFailureKeepsTime(b, t) ==
    LET f == b.failures + 1
    IN  [b EXCEPT !.failures = f,
                  !.state = IF f >= b.threshold THEN "open" ELSE @]

\* func raised
CBFailure(b, t) ==
    LET f == b.failures + 1
    IN  [b EXCEPT !.failures = f,
                  !.last_failure_time = t,
                  !.state = IF f >= b.threshold THEN "open" ELSE @]

(* ---- ServiceIntegration ---- *)

\* reset_timeout: float = 60.0, in clock ticks of 30 s
DefaultResetTimeout == 2
\* circuit_breaker_threshold=5 of both services registered by initialize()
ConfiguredThreshold == 5
\* retry_count=3 of both services registered by initialize()
ConfiguredRetryCount == 3
\* max_tries=3 of the retry decorator
MaxTries == 3

\* the names call_service is called with: the two registered services and
\* one that is not registered
ServiceNames == {"model", "chroma", "search"}

\* the exceptions the retry decorator retries on
Retryable == {"ClientError", "TimeoutError"}
\* what make_request ends in: the response, a connection error or a non-2xx
\* status (ClientError), a timeout, the TypeError of a payload that json
\* cannot serialize ("SerializationError"), or any other exception
Outcomes == {"ok", "ClientError", "TimeoutError", "SerializationError", "OtherError"}

ServiceConfig(name, host, port, timeout) ==
    [name |-> name, host |-> host, port |-> port, timeout |-> timeout,
     retry_count |-> ConfiguredRetryCount,
     circuit_breaker_threshold |-> ConfiguredThreshold]

\* faulty variant of RegisterService: a name already registered keeps its
\* configuration
RegisterServiceKeepsFirst(reg, config) ==
    [services |-> [n \in (DOMAIN reg.services) \cup {config.name} |->
                     IF n \in DOMAIN reg.services THEN reg.services[n] ELSE config],
     circuit_breakers |->
         [n \in (DOMAIN reg.circuit_breakers) \cup {config.name} |->
            IF n = config.name
            THEN CircuitBreaker(config.circuit_breaker_threshold, DefaultResetTimeout)
            ELSE reg.circuit_breakers[n]]]

\* faulty variant of RegisterService: a name already registered keeps the
\* breaker it has
RegisterServiceKeepsBreaker(reg, config) ==
    [services |-> [n \in (DOMAIN reg.services) \cup {config.name} |->
                     IF n = config.name THEN config ELSE reg.services[n]],
     circuit_breakers |->
         [n \in (DOMAIN reg.circuit_breakers) \cup {config.name} |->
            IF n \in DOMAIN reg.circuit_breakers
            THEN reg.circuit_breakers[n]
            ELSE CircuitBreaker(config.circuit_breaker_threshold, DefaultResetTimeout)]]

\* register_service
RegisterService(reg, config) ==
    [services |-> [n \in (DOMAIN reg.services) \cup {config.name} |->
                     IF n = config.name THEN config ELSE reg.services[n]],
     circuit_breakers |->
         [n \in (DOMAIN reg.circuit_breakers) \cup {config.name} |->
            IF n = config.name
            THEN CircuitBreaker(config.circuit_breaker_threshold, DefaultResetTimeout)
            ELSE reg.circuit_breakers[n]]]

EmptyRegistry == [services |-> <<>>, circuit_breakers |-> <<>>]

\* ServiceIntegration() followed by initialize()
Initialized ==
    RegisterService(
        RegisterService(EmptyRegistry,
                        ServiceConfig("model", "deepseek-model-service", 8080, 30)),
        ServiceConfig("chroma", "chroma-service", 8000, 10))

InitGateway ==
    /\ services = Initialized.services
    /\ circuit_breakers = Initialized.circuit_breakers
    /\ gpc = [c \in GwCalls |-> "idle"]
    /\ gsvc = [c \in GwCalls |-> "model"]
    /\ tries = [c \in GwCalls |-> 0]
    /\ gerr = [c \in GwCalls |-> "none"]
    /\ added = [c \in GwCalls |-> 0]
    /\ recorded = [c \in GwCalls |-> 0]
    /\ detached = [c \in GwCalls |-> FALSE]

\* faulty variant of Attempt: an unknown service name is retried like a network error
AttemptRetriesUnknown(c, name, n) ==
    /\ tries' = [tries EXCEPT ![c] = n]
    /\ gsvc' = [gsvc EXCEPT ![c] = name]
    /\ IF name \notin DOMAIN services
       THEN /\ IF n < MaxTries
               THEN /\ gpc' = [gpc EXCEPT ![c] = "backoff"]
                    /\ UNCHANGED gerr
               ELSE /\ gpc' = [gpc EXCEPT ![c] = "raised"]
                    /\ gerr' = [gerr EXCEPT ![c] = "ValueError"]
            /\ UNCHANGED circuit_breakers
       ELSE IF CBDenies(circuit_breakers[name], now)
       THEN /\ gpc' = [gpc EXCEPT ![c] = "raised"]
            /\ gerr' = [gerr EXCEPT ![c] = "CircuitOpen"]
            /\ UNCHANGED circuit_breakers
       ELSE /\ circuit_breakers' =
                  [circuit_breakers EXCEPT ![name] = CBEnter(@, now)]
            /\ gpc' = [gpc EXCEPT ![c] = "inflight"]
            /\ UNCHANGED gerr
    /\ added' = [added EXCEPT ![c] = IF n = 1 THEN 0 ELSE @]
    /\ recorded' = [recorded EXCEPT ![c] =
                       (IF n = 1 THEN 0 ELSE @)
                       + (IF gpc'[c] = "inflight" THEN 1 ELSE 0)]
    /\ detached' = [detached EXCEPT ![c] = FALSE]
    /\ UNCHANGED <<now, services, notGateway>>

\* faulty variant of Attempt: the breaker's denial is retried like a network error
AttemptRetriesDenial(c, name, n) ==
    /\ tries' = [tries EXCEPT ![c] = n]
    /\ gsvc' = [gsvc EXCEPT ![c] = name]
    /\ IF name \notin DOMAIN services
       THEN /\ gpc' = [gpc EXCEPT ![c] = "raised"]
            /\ gerr' = [gerr EXCEPT ![c] = "ValueError"]
            /\ UNCHANGED circuit_breakers
       ELSE IF CBDenies(circuit_breakers[name], now)
       THEN /\ IF n < MaxTries
               THEN /\ gpc' = [gpc EXCEPT ![c] = "backoff"]
                    /\ UNCHANGED gerr
               ELSE /\ gpc' = [gpc EXCEPT ![c] = "raised"]
                    /\ gerr' = [gerr EXCEPT ![c] = "CircuitOpen"]
            /\ UNCHANGED circuit_breakers
       ELSE /\ circuit_breakers' =
                  [circuit_breakers EXCEPT ![name] = CBEnter(@, now)]
            /\ gpc' = [gpc EXCEPT ![c] = "inflight"]
            /\ UNCHANGED gerr
    /\ added' = [added EXCEPT ![c] = IF n = 1 THEN 0 ELSE @]
    /\ recorded' = [recorded EXCEPT ![c] =
                       (IF n = 1 THEN 0 ELSE @)
                       + (IF gpc'[c] = "inflight" THEN 1 ELSE 0)]
    /\ detached' = [detached EXCEPT ![c] = FALSE]
    /\ UNCHANGED <<now, services, notGateway>>

\* one invocation of call_service, from its entry to the network request's
\* await or to a raise before it: the n-th of gateway call c, for service name
Attempt(c, name, n) ==
    /\ tries' = [tries EXCEPT ![c] = n]
    /\ gsvc' = [gsvc EXCEPT ![c] = name]
    /\ IF name \notin DOMAIN services
       THEN /\ gpc' = [gpc EXCEPT ![c] = "raised"]
            /\ gerr' = [gerr EXCEPT ![c] = "ValueError"]
            /\ UNCHANGED circuit_breakers
       ELSE IF CBDenies(circuit_breakers[name], now)
       THEN /\ gpc' = [gpc EXCEPT ![c] = "raised"]
            /\ gerr' = [gerr EXCEPT ![c] = "CircuitOpen"]
            /\ UNCHANGED circuit_breakers
       ELSE /\ circuit_breakers' =
                  [circuit_breakers EXCEPT ![name] = CBEnter(@, now)]
            /\ gpc' = [gpc EXCEPT ![c] = "inflight"]
            /\ UNCHANGED gerr
    /\ added' = [added EXCEPT ![c] = IF n = 1 THEN 0 ELSE @]
    /\ recorded' = [recorded EXCEPT ![c] =
                       (IF n = 1 THEN 0 ELSE @)
                       + (IF gpc'[c] = "inflight" THEN 1 ELSE 0)]
    /\ detached' = [detached EXCEPT ![c] = FALSE]
    /\ UNCHANGED <<now, services, notGateway>>

\* a caller calls call_service: the decorator makes the first invocation
GwCall(c, name) ==
    /\ gpc[c] = "idle"
    /\ Attempt(c, name, 1)

\* the decorator's backoff sleep is over: it invokes call_service again
GwRetry(c) ==
    /\ gpc[c] = "backoff"
    /\ Attempt(c, gsvc[c], tries[c] + 1)

\* faulty variant of GwResponse: when the last attempt fails the call returns
\* instead of raising
GwResponseSwallowsLastFailure(c, outcome) ==
    /\ gpc[c] = "inflight"
    /\ LET name == gsvc[c]
           old == circuit_breakers[name]
           new == IF detached[c] THEN old
                  ELSE IF outcome = "ok" THEN CBSuccess(old) ELSE CBFailure(old, now)
       IN  /\ outcome # "ok" => old.failures < MaxGwFailures
           /\ circuit_breakers' = [circuit_breakers EXCEPT ![name] = new]
           /\ added' = [added EXCEPT ![c] =
                          IF outcome = "ok" THEN @ ELSE @ + new.failures - old.failures]
           /\ IF outcome = "ok" \/ (outcome \in Retryable /\ tries[c] = MaxTries)
              THEN /\ gpc' = [gpc EXCEPT ![c] = "returned"]
                   /\ UNCHANGED gerr
              ELSE IF outcome \in Retryable /\ tries[c] < MaxTries
              THEN /\ gpc' = [gpc EXCEPT ![c] = "backoff"]
                   /\ UNCHANGED gerr
              ELSE /\ gpc' = [gpc EXCEPT ![c] = "raised"]
                   /\ gerr' = [gerr EXCEPT ![c] = outcome]
    /\ UNCHANGED <<now, services, gsvc, tries, recorded, detached, notGateway>>

\* faulty variant of GwResponse: a failure is counted on every service's breaker
GwResponseSharedBreaker(c, outcome) ==
    /\ gpc[c] = "inflight"
    /\ LET name == gsvc[c]
           old == circuit_breakers[name]
           new == IF detached[c] THEN old
                  ELSE IF outcome = "ok" THEN CBSuccess(old) ELSE CBFailure(old, now)
       IN  /\ outcome # "ok" => old.failures < MaxGwFailures
           /\ circuit_breakers' =
                  [n \in DOMAIN circuit_breakers |->
                      IF n = name THEN new
                      ELSE IF outcome = "ok" \/ detached[c] THEN circuit_breakers[n]
                      ELSE CBFailure(circuit_breakers[n], now)]
           /\ added' = [added EXCEPT ![c] =
                          IF outcome = "ok" THEN @ ELSE @ + new.failures - old.failures]
           /\ IF outcome = "ok"
              THEN /\ gpc' = [gpc EXCEPT ![c] = "returned"]
                   /\ UNCHANGED gerr
              ELSE IF outcome \in Retryable /\ tries[c] < MaxTries
              THEN /\ gpc' = [gpc EXCEPT ![c] = "backoff"]
                   /\ UNCHANGED gerr
              ELSE /\ gpc' = [gpc EXCEPT ![c] = "raised"]
                   /\ gerr' = [gerr EXCEPT ![c] = outcome]
    /\ UNCHANGED <<now, services, gsvc, tries, recorded, detached, notGateway>>

\* the network request of make_request ends, inside circuit_breaker.call; the
\* breaker is the object the attempt took from circuit_breakers, which a
\* registration in between has replaced there when the call is detached
GwResponse(c, outcome) ==
    /\ gpc[c] = "inflight"
    /\ LET name == gsvc[c]
           old == circuit_breakers[name]
           new == IF detached[c] THEN old
                  ELSE IF outcome = "ok" THEN CBSuccess(old) ELSE CBFailure(old, now)
       IN  /\ outcome # "ok" => old.failures < MaxGwFailures
           /\ circuit_breakers' = [circuit_breakers EXCEPT ![name] = new]
           /\ added' = [added EXCEPT ![c] =
                          IF outcome = "ok" THEN @ ELSE @ + new.failures - old.failures]
           /\ IF outcome = "ok"
              THEN /\ gpc' = [gpc EXCEPT ![c] = "returned"]
                   /\ UNCHANGED gerr
              ELSE IF outcome \in Retryable /\ tries[c] < MaxTries
              THEN /\ gpc' = [gpc EXCEPT ![c] = "backoff"]
                   /\ UNCHANGED gerr
              ELSE /\ gpc' = [gpc EXCEPT ![c] = "raised"]
                   /\ gerr' = [gerr EXCEPT ![c] = outcome]
    /\ UNCHANGED <<now, services, gsvc, tries, recorded, detached, notGateway>>

\* the caller has the response or the exception and may call again; the
\* finished call's locals are gone
GwDone(c) ==
    /\ gpc[c] \in {"returned", "raised"}
    /\ gpc' = [gpc EXCEPT ![c] = "idle"]
    /\ gsvc' = [gsvc EXCEPT ![c] = "model"]
    /\ tries' = [tries EXCEPT ![c] = 0]
    /\ gerr' = [gerr EXCEPT ![c] = "none"]
    /\ added' = [added EXCEPT ![c] = 0]
    /\ recorded' = [recorded EXCEPT ![c] = 0]
    /\ detached' = [detached EXCEPT ![c] = FALSE]
    /\ UNCHANGED <<now, services, circuit_breakers, notGateway>>

\* the configurations register_service is given after initialize(): a service
\* of a new name, registered and registered again with other settings
RegisteredLater ==
    {[ServiceConfig("search", "search-service", 9200, 5)
        EXCEPT !.retry_count = rc, !.circuit_breaker_threshold = th] :
            rc \in {1, 3}, th \in {1, 2}}

\* register_service(config), called while gateway calls may be in flight: a
\* call awaiting its request keeps the breaker object it took before
GwRegister(config) ==
    /\ LET reg == RegisterService([services |-> services,
                                   circuit_breakers |-> circuit_breakers], config)
       IN  /\ services' = reg.services
           /\ circuit_breakers' = reg.circuit_breakers
    /\ detached' = [c \in GwCalls |->
                       detached[c] \/ (gpc[c] = "inflight" /\ gsvc[c] = config.name)]
    /\ UNCHANGED <<now, gpc, gsvc, tries, gerr, added, recorded, notGateway>>

(* ---- with_error_handling ---- *)

\* the decorator's defaults
DefaultMaxRetries == 3
DefaultRetryDelay == 1
\* the largest arguments the decorator is given in the runs
MaxMaxRetries == 4
MaxRetryDelay == 2

\* the exceptions the wrapped function raises in the runs
ErrorKinds == {"ModelError", "EmbeddingError", "ValueError"}
\* the keys of error_handler.error_handlers
ErrorHandlers == {"ModelError", "EmbeddingError", "TokenLimitError"}
\* the results the wrapped function returns in the runs
ReturnValues == {"r1", "r2"}

\* faulty variant of LoopContinues: the wrapper gives up one attempt early
LoopStopsEarly(n, max) == n + 1 < max
\* faulty variant of LoopContinues: the wrapper makes one attempt too many
LoopRunsOver(n, max) == n <= max
\* the test retries < max_retries of the while loop and of the backoff
LoopContinues(n, max) == n < max

\* faulty variant of BackoffDelay: the delay grows linearly
BackoffLinear(delay, n) == delay * n
\* the argument of asyncio.sleep after the n-th failure
BackoffDelay(delay, n) == delay * 2^(n - 1)

InitRetry ==
    /\ wpc = "idle"
    /\ retries = 0
    /\ last_error = "None"
    /\ invocations = 0
    /\ errors = <<>>
    /\ sleeps = <<>>
    /\ handled = 0
    /\ cancel_requested = FALSE
    /\ wout = "None"

\* the wrapper is called: up to the first await of func, or, when the loop is
\* not entered, to raise last_error with last_error None, a TypeError
WrapperCall ==
    /\ wpc = "idle"
    /\ retries' = 0
    /\ last_error' = "None"
    /\ errors' = <<>>
    /\ sleeps' = <<>>
    /\ handled' = 0
    /\ cancel_requested' = FALSE
    /\ IF LoopContinues(0, max_retries)
       THEN /\ wpc' = "calling"
            /\ invocations' = 1
            /\ wout' = "None"
       ELSE /\ wpc' = "raised"
            /\ invocations' = 0
            /\ wout' = "TypeError"
    /\ UNCHANGED <<max_retries, retry_delay, notRetry>>

\* func returns v: the wrapper returns it (a func that returns after the task
\* was cancelled has caught the cancellation)
WrappedReturns(v) ==
    /\ wpc = "calling"
    /\ wpc' = "returned"
    /\ wout' = v
    /\ cancel_requested' = FALSE
    /\ UNCHANGED <<max_retries, retry_delay, retries, last_error, invocations,
                   errors, sleeps, handled, notRetry>>

\* func raises e: the except clause up to the await of asyncio.sleep or, when
\* no attempt is left, to raise last_error.  The registered handlers log and
\* return without waiting.
WrappedRaises(e) ==
    /\ wpc = "calling"
    /\ cancel_requested' = FALSE
    /\ retries' = retries + 1
    /\ last_error' = e
    /\ errors' = Append(errors, e)
    /\ handled' = IF e \in ErrorHandlers THEN handled + 1 ELSE handled
    /\ IF LoopContinues(retries', max_retries)
       THEN /\ wpc' = "sleeping"
            /\ sleeps' = Append(sleeps, BackoffDelay(retry_delay, retries'))
            /\ UNCHANGED wout
       ELSE /\ wpc' = "raised"
            /\ wout' = last_error'
            /\ UNCHANGED sleeps
    /\ UNCHANGED <<max_retries, retry_delay, invocations, notRetry>>

\* asyncio.sleep is over: the loop test, then the next await of func
SleepEnds ==
    /\ wpc = "sleeping"
    /\ ~cancel_requested
    /\ IF LoopContinues(retries, max_retries)
       THEN /\ wpc' = "calling"
            /\ invocations' = invocations + 1
            /\ UNCHANGED wout
       ELSE /\ wpc' = "raised"
            /\ wout' = last_error
            /\ UNCHANGED invocations
    /\ UNCHANGED <<max_retries, retry_delay, retries, last_error, errors, sleeps,
                   handled, cancel_requested, notRetry>>

\* task.cancel() on the task that runs the wrapper, while it waits: the
\* awaited sleep is cancelled with it and cannot end normally any more
TaskCancel ==
    /\ wpc \in {"calling", "sleeping"}
    /\ ~cancel_requested
    /\ cancel_requested' = TRUE
    /\ UNCHANGED <<max_retries, retry_delay, wpc, retries, last_error, invocations,
                   errors, sleeps, handled, wout, notRetry>>

\* faulty variant of CancelWrapper: a cancellation that arrives during the
\* backoff is caught and the loop goes on
CancelCaughtInBackoff ==
    /\ wpc \in {"calling", "sleeping"}
    /\ cancel_requested
    /\ cancel_requested' = FALSE
    /\ IF wpc = "sleeping"
       THEN /\ wpc' = "calling"
            /\ invocations' = invocations + 1
            /\ UNCHANGED wout
       ELSE /\ wpc' = "cancelled"
            /\ wout' = "CancelledError"
            /\ UNCHANGED invocations
    /\ UNCHANGED <<max_retries, retry_delay, retries, last_error, errors, sleeps,
                   handled, notRetry>>

\* the cancelled task resumes: CancelledError is raised at its await.  In the
\* backoff that is inside the except clause, which nothing encloses; at the
\* await of func it is not an Exception, so the except clause lets it pass.
CancelWrapper ==
    /\ wpc \in {"calling", "sleeping"}
    /\ cancel_requested
    /\ cancel_requested' = FALSE
    /\ wpc' = "cancelled"
    /\ wout' = "CancelledError"
    /\ UNCHANGED <<max_retries, retry_delay, retries, last_error, invocations,
                   errors, sleeps, handled, notRetry>>

\* the caller has the result or the exception; the call's locals are gone
WrapperDone ==
    /\ wpc \in {"returned", "raised", "cancelled"}
    /\ wpc' = "idle"
    /\ retries' = 0
    /\ last_error' = "None"
    /\ invocations' = 0
    /\ errors' = <<>>
    /\ sleeps' = <<>>
    /\ handled' = 0
    /\ cancel_requested' = FALSE
    /\ wout' = "None"
    /\ UNCHANGED <<max_retries, retry_delay, notRetry>>

NextRetry ==
    \/ WrapperCall
    \/ \E v \in ReturnValues : WrappedReturns(v)
    \/ \E e \in ErrorKinds : WrappedRaises(e)
    \/ SleepEnds
    \/ TaskCancel
    \/ CancelWrapper
    \/ WrapperDone

\* the decorator applied with its defaults
InitRetryDefault ==
    /\ max_retries = DefaultMaxRetries
    /\ retry_delay = DefaultRetryDelay
    /\ InitRetry

(* ---- SecurityManager and SecurityMiddleware ---- *)

\* SecurityConfig.RATE_LIMIT_MINUTE and RATE_LIMIT_HOUR, scaled down from 100
\* and 1000 requests
RATE_LIMIT_MINUTE == 2
RATE_LIMIT_HOUR == 3
\* the window lengths of rate_limit_check, 60 s and 3600 s, in clock ticks
MinuteWindow == 1
HourWindow == 2
\* the clock of the middleware's runs stops advancing here
MaxSecTime == 3

\* two concurrent requests
Requests == {1, 2}

\* the Authorization tokens requests bear: jwt.decode of each is its
\* payload, or fails with JWTError (bad signature, expired)
Tokens == {"admin_jwt", "user_jwt", "bad_jwt", "nosub_jwt", "norole_jwt"}
\* the tokens revoke_token is given: the ones that verify
Revocable == {"admin_jwt", "user_jwt"}

JwtDecode(t) ==
    CASE t = "admin_jwt"  -> [sub |-> "alice", role |-> "admin"]
      [] t = "user_jwt"   -> [sub |-> "bob", role |-> "user"]
      [] t = "nosub_jwt"  -> [sub |-> "None", role |-> "user"]
      [] t = "norole_jwt" -> [sub |-> "carol", role |-> "None"]
      [] OTHER            -> [sub |-> "JWTError", role |-> "None"]

\* the values of the enumeration Role
Roles == {"admin", "user", "service"}

\* faulty variant of VerifyToken: the blacklist is not consulted
VerifyTokenNoBlacklist(t, blacklist) ==
    LET payload == JwtDecode(t)
    IN  IF payload.sub \in {"JWTError", "None"}
        THEN [status |-> 401, username |-> "None", role |-> "None"]
        ELSE IF payload.role \notin Roles
        THEN [status |-> 500, username |-> "None", role |-> "None"]
        ELSE [status |-> 200, username |-> payload.sub, role |-> payload.role]

\* verify_token: status 200 with the UserData, the HTTPException's status 401,
\* or 500 for the ValueError of Role(role), which nothing catches
VerifyToken(t, blacklist) ==
    LET payload == JwtDecode(t)
    IN  IF t \in blacklist \/ payload.sub \in {"JWTError", "None"}
        THEN [status |-> 401, username |-> "None", role |-> "None"]
        ELSE IF payload.role \notin Roles
        THEN [status |-> 500, username |-> "None", role |-> "None"]
        ELSE [status |-> 200, username |-> payload.sub, role |-> payload.role]

Window(t) == [count |-> 0, reset |-> t]

\* faulty variant of RateLimitCheck: a denied call is counted too
RateLimitCheckCountsDenied(limiters, username, t) ==
    LET l0 == IF username \in DOMAIN limiters
              THEN limiters[username]
              ELSE [minute |-> Window(t), hour |-> Window(t)]
        l1 == IF t - l0.minute.reset > MinuteWindow
              THEN [l0 EXCEPT !.minute = Window(t)] ELSE l0
        l2 == IF t - l1.hour.reset > HourWindow
              THEN [l1 EXCEPT !.hour = Window(t)] ELSE l1
        over == \/ l2.minute.count >= RATE_LIMIT_MINUTE
                \/ l2.hour.count >= RATE_LIMIT_HOUR
        l3 == [l2 EXCEPT !.minute.count = @ + 1, !.hour.count = @ + 1]
    IN  [allowed |-> ~over,
         limiters |-> [u \in (DOMAIN limiters) \cup {username} |->
                         IF u = username THEN l3 ELSE limiters[u]]]

\* faulty variant of RateLimitCheck: an admitted call is counted in the minute window only
RateLimitCheckMinuteOnly(limiters, username, t) ==
    LET l0 == IF username \in DOMAIN limiters
              THEN limiters[username]
              ELSE [minute |-> Window(t), hour |-> Window(t)]
        l1 == IF t - l0.minute.reset > MinuteWindow
              THEN [l0 EXCEPT !.minute = Window(t)] ELSE l0
        l2 == IF t - l1.hour.reset > HourWindow
              THEN [l1 EXCEPT !.hour = Window(t)] ELSE l1
        over == \/ l2.minute.count >= RATE_LIMIT_MINUTE
                \/ l2.hour.count >= RATE_LIMIT_HOUR
        l3 == IF over THEN l2
              ELSE [l2 EXCEPT !.minute.count = @ + 1]
    IN  [allowed |-> ~over,
         limiters |-> [u \in (DOMAIN limiters) \cup {username} |->
                         IF u = username THEN l3 ELSE limiters[u]]]

\* faulty variant of RateLimitCheck: a due minute window restarts the hour window as well
RateLimitCheckResetsBoth(limiters, username, t) ==
    LET l0 == IF username \in DOMAIN limiters
              THEN limiters[username]
              ELSE [minute |-> Window(t), hour |-> Window(t)]
        l1 == IF t - l0.minute.reset > MinuteWindow
              THEN [minute |-> Window(t), hour |-> Window(t)] ELSE l0
        l2 == IF t - l1.hour.reset > HourWindow
              THEN [l1 EXCEPT !.hour = Window(t)] ELSE l1
        over == \/ l2.minute.count >= RATE_LIMIT_MINUTE
                \/ l2.hour.count >= RATE_LIMIT_HOUR
        l3 == IF over THEN l2
              ELSE [l2 EXCEPT !.minute.count = @ + 1, !.hour.count = @ + 1]
    IN  [allowed |-> ~over,
         limiters |-> [u \in (DOMAIN limiters) \cup {username} |->
                         IF u = username THEN l3 ELSE limiters[u]]]

\* faulty variant of RateLimitCheck: a window at its limit still admits
RateLimitCheckOffByOne(limiters, username, t) ==
    LET l0 == IF username \in DOMAIN limiters
              THEN limiters[username]
              ELSE [minute |-> Window(t), hour |-> Window(t)]
        l1 == IF t - l0.minute.reset > MinuteWindow
              THEN [l0 EXCEPT !.minute = Window(t)] ELSE l0
        l2 == IF t - l1.hour.reset > HourWindow
              THEN [l1 EXCEPT !.hour = Window(t)] ELSE l1
        over == \/ l2.minute.count > RATE_LIMIT_MINUTE
                \/ l2.hour.count > RATE_LIMIT_HOUR
        l3 == IF over THEN l2
              ELSE [l2 EXCEPT !.minute.count = @ + 1, !.hour.count = @ + 1]
    IN  [allowed |-> ~over,
         limiters |-> [u \in (DOMAIN limiters) \cup {username} |->
                         IF u = username THEN l3 ELSE limiters[u]]]

\* faulty variant of RateLimitCheck: the call admitted for the last slot of the
\* minute window is not counted, as when a second check overwrites its update
RateLimitCheckLastSlotLost(limiters, username, t) ==
    LET l0 == IF username \in DOMAIN limiters
              THEN limiters[username]
              ELSE [minute |-> Window(t), hour |-> Window(t)]
        l1 == IF t - l0.minute.reset > MinuteWindow
              THEN [l0 EXCEPT !.minute = Window(t)] ELSE l0
        l2 == IF t - l1.hour.reset > HourWindow
              THEN [l1 EXCEPT !.hour = Window(t)] ELSE l1
        over == \/ l2.minute.count >= RATE_LIMIT_MINUTE
                \/ l2.hour.count >= RATE_LIMIT_HOUR
        l3 == IF over \/ l2.minute.count = RATE_LIMIT_MINUTE - 1 THEN l2
              ELSE [l2 EXCEPT !.minute.count = @ + 1, !.hour.count = @ + 1]
    IN  [allowed |-> ~over,
         limiters |-> [u \in (DOMAIN limiters) \cup {username} |->
                         IF u = username THEN l3 ELSE limiters[u]]]

\* faulty variant of RateLimitCheck: a due minute window is restarted for
\* every principal, not only for the one checked
RateLimitCheckSweepsAll(limiters, username, t) ==
    LET l0 == IF username \in DOMAIN limiters
              THEN limiters[username]
              ELSE [minute |-> Window(t), hour |-> Window(t)]
        l1 == IF t - l0.minute.reset > MinuteWindow
              THEN [l0 EXCEPT !.minute = Window(t)] ELSE l0
        l2 == IF t - l1.hour.reset > HourWindow
              THEN [l1 EXCEPT !.hour = Window(t)] ELSE l1
        over == \/ l2.minute.count >= RATE_LIMIT_MINUTE
                \/ l2.hour.count >= RATE_LIMIT_HOUR
        l3 == IF over THEN l2
              ELSE [l2 EXCEPT !.minute.count = @ + 1, !.hour.count = @ + 1]
    IN  [allowed |-> ~over,
         limiters |-> [u \in (DOMAIN limiters) \cup {username} |->
                         IF u = username THEN l3
                         ELSE IF t - limiters[u].minute.reset > MinuteWindow
                         THEN [limiters[u] EXCEPT !.minute = Window(t)]
                         ELSE limiters[u]]]

\* rate_limit_check: the answer and the _rate_limiters it leaves
RateLimitCheck(limiters, username, t) ==
    LET l0 == IF username \in DOMAIN limiters
              THEN limiters[username]
              ELSE [minute |-> Window(t), hour |-> Window(t)]
        l1 == IF t - l0.minute.reset > MinuteWindow
              THEN [l0 EXCEPT !.minute = Window(t)] ELSE l0
        l2 == IF t - l1.hour.reset > HourWindow
              THEN [l1 EXCEPT !.hour = Window(t)] ELSE l1
        over == \/ l2.minute.count >= RATE_LIMIT_MINUTE
                \/ l2.hour.count >= RATE_LIMIT_HOUR
        l3 == IF over THEN l2
              ELSE [l2 EXCEPT !.minute.count = @ + 1, !.hour.count = @ + 1]
    IN  [allowed |-> ~over,
         limiters |-> [u \in (DOMAIN limiters) \cup {username} |->
                         IF u = username THEN l3 ELSE limiters[u]]]

\* faulty variant of MwAdmit: the handler is called whatever rate_limit_check answers
MwAdmitIgnoringLimit(tok, blacklist, limiters, t) ==
    IF tok = ""
    THEN [next |-> "handler", status |-> 0, limiters |-> limiters]
    ELSE LET user == VerifyToken(tok, blacklist)
         IN  IF user.status # 200
             THEN [next |-> "rejected", status |-> user.status, limiters |-> limiters]
             ELSE [next |-> "handler", status |-> 0,
                   limiters |-> RateLimitCheck(limiters, user.username, t).limiters]

\* faulty variant of MwAdmit: the quota is consumed before the blacklist is
\* consulted
MwAdmitCountsBeforeVerifying(tok, blacklist, limiters, t) ==
    IF tok = ""
    THEN [next |-> "handler", status |-> 0, limiters |-> limiters]
    ELSE LET decoded == VerifyTokenNoBlacklist(tok, blacklist)
             user == VerifyToken(tok, blacklist)
         IN  IF decoded.status # 200
             THEN [next |-> "rejected", status |-> decoded.status, limiters |-> limiters]
             ELSE LET rl == RateLimitCheck(limiters, decoded.username, t)
                  IN  IF user.status # 200
                      THEN [next |-> "rejected", status |-> user.status,
                            limiters |-> rl.limiters]
                      ELSE IF ~rl.allowed
                      THEN [next |-> "rejected", status |-> 429, limiters |-> rl.limiters]
                      ELSE [next |-> "handler", status |-> 0, limiters |-> rl.limiters]

\* SecurityMiddleware.__call__ up to the await of call_next or to a raise
MwAdmit(tok, blacklist, limiters, t) ==
    IF tok = ""
    THEN [next |-> "handler", status |-> 0, limiters |-> limiters]
    ELSE LET user == VerifyToken(tok, blacklist)
         IN  IF user.status # 200
             THEN [next |-> "rejected", status |-> user.status, limiters |-> limiters]
             ELSE LET rl == RateLimitCheck(limiters, user.username, t)
                  IN  IF ~rl.allowed
                      THEN [next |-> "rejected", status |-> 429, limiters |-> rl.limiters]
                      ELSE [next |-> "handler", status |-> 0, limiters |-> rl.limiters]

InitSecurity ==
    /\ token_blacklist = {}
    /\ rate_limiters = <<>>
    /\ rpc = [r \in Requests |-> "idle"]
    /\ rtok = [r \in Requests |-> ""]
    /\ rstatus = [r \in Requests |-> 0]

\* a request arrives at the middleware
MwEnter(r, tok) ==
    /\ rpc[r] = "idle"
    /\ LET m == MwAdmit(tok, token_blacklist, rate_limiters, now)
       IN  /\ rpc' = [rpc EXCEPT ![r] = m.next]
           /\ rstatus' = [rstatus EXCEPT ![r] = m.status]
           /\ rate_limiters' = m.limiters
    /\ rtok' = [rtok EXCEPT ![r] = tok]
    /\ UNCHANGED <<now, token_blacklist, notSecurity>>

\* call_next returns the handler's response, which gets its
\* X-Rate-Limit-Remaining header when the request bears a token (an exception
\* of call_next leaves the same state behind)
MwHandlerEnds(r) ==
    /\ rpc[r] = "handler"
    /\ rpc' = [rpc EXCEPT ![r] = "responded"]
    /\ rstatus' = [rstatus EXCEPT ![r] = 200]
    /\ UNCHANGED <<now, token_blacklist, rate_limiters, rtok, notSecurity>>

\* the response or exception has left the middleware
MwDone(r) ==
    /\ rpc[r] \in {"rejected", "responded"}
    /\ rpc' = [rpc EXCEPT ![r] = "idle"]
    /\ rtok' = [rtok EXCEPT ![r] = ""]
    /\ rstatus' = [rstatus EXCEPT ![r] = 0]
    /\ UNCHANGED <<now, token_blacklist, rate_limiters, notSecurity>>

\* revoke_token (of a token already in the set it changes nothing)
RevokeToken(t) ==
    /\ t \notin token_blacklist
    /\ token_blacklist' = token_blacklist \cup {t}
    /\ UNCHANGED <<now, rate_limiters, rpc, rtok, rstatus, notSecurity>>

SecTick ==
    /\ now < MaxSecTime
    /\ now' = now + 1
    /\ UNCHANGED <<breakerVars, gatewayVars, securityVars, retryVars, permVars, apiVars, chromaVars>>

(* ---- check_permission and the require_permissions dependency ---- *)

\* the permission names routes require and tokens carry
Permissions == {"read", "write", "delete"}

\* payload.get("permissions", []) of a token that decodes; the list is read
\* only by the membership test of check_permission, so it is kept as a set
JwtPermissions(t) ==
    CASE t = "user_jwt"   -> {"read", "write"}
      [] t = "norole_jwt" -> {"read"}
      [] OTHER            -> {}

\* what verify_token can be handed: a string or a list
StrArg(t) == [kind |-> "str", str |-> t, list |-> {}]
ListArg(l) == [kind |-> "list", str |-> "", list |-> l]

\* verify_token of any argument: a list is unhashable, so the blacklist
\* membership test of line 74 raises TypeError, which is not a JWTError and
\* leaves verify_token as an unhandled error (status 500)
VerifyTokenArg(arg, blacklist) ==
    IF arg.kind = "list"
    THEN [status |-> 500, username |-> "None", role |-> "None"]
    ELSE VerifyToken(arg.str, blacklist)

\* check_permission: the answer, or the status verify_token failed with
CheckPermission(arg, required, blacklist) ==
    LET user_data == VerifyTokenArg(arg, blacklist)
    IN  IF user_data.status # 200
        THEN [status |-> user_data.status, allowed |-> FALSE]
        ELSE IF user_data.role = "admin"
        THEN [status |-> 200, allowed |-> TRUE]
        ELSE [status |-> 200,
              allowed |-> \A perm \in required : perm \in JwtPermissions(arg.str)]

\* permission_checker of require_permissions(required) for a request bearing
\* tok: get_current_user, then check_permission called with user.permissions
\* in the place of the token
PermissionChecker(tok, required, blacklist) ==
    LET user == VerifyToken(tok, blacklist)
    IN  IF user.status # 200
        THEN [status |-> user.status, allowed |-> FALSE]
        ELSE LET chk == CheckPermission(ListArg(JwtPermissions(tok)),
                                        required, blacklist)
             IN  IF chk.status # 200
                 THEN chk
                 ELSE IF ~chk.allowed
                 THEN [status |-> 403, allowed |-> FALSE]
                 ELSE [status |-> 200, allowed |-> TRUE]

InitPermissions ==
    /\ ppc = "idle"
    /\ ptok = ""
    /\ preq = {}
    /\ pres = [status |-> 0, allowed |-> FALSE]

\* a request reaches a route declared with require_permissions(required);
\* nothing in the dependency suspends
RouteCall(tok, required) ==
    /\ ppc = "idle"
    /\ ppc' = "require_permissions"
    /\ ptok' = tok
    /\ preq' = required
    /\ pres' = PermissionChecker(tok, required, token_blacklist)
    /\ UNCHANGED <<token_blacklist, notPermissions>>

\* check_permission awaited with the bearer token itself
CheckCall(tok, required) ==
    /\ ppc = "idle"
    /\ ppc' = "check_permission"
    /\ ptok' = tok
    /\ preq' = required
    /\ pres' = CheckPermission(StrArg(tok), required, token_blacklist)
    /\ UNCHANGED <<token_blacklist, notPermissions>>

\* the outcome has been delivered
PermDone ==
    /\ ppc # "idle"
    /\ ppc' = "idle"
    /\ ptok' = ""
    /\ preq' = {}
    /\ pres' = [status |-> 0, allowed |-> FALSE]
    /\ UNCHANGED <<token_blacklist, notPermissions>>

NextPermissions ==
    \/ \E tok \in Tokens, required \in SUBSET Permissions : RouteCall(tok, required)
    \/ \E tok \in Tokens, required \in SUBSET Permissions : CheckCall(tok, required)
    \/ PermDone
    \/ \E t \in Revocable : RevokeToken(t)

(* ---- OptimizedChromaDB ---- *)

\* the longest list of documents add_documents and update_documents are given
MaxDocs == 3
\* the largest batch_size add_documents is called with
MaxBatch == 2
\* batch_size: int = 100, used by update_documents
DefaultBatchSize == 100

\* the contents of DocumentChunks
Contents == {"a", "b"}
\* the lists of documents given to add_documents
DocLists == UNION {[1..n -> Contents] : n \in 1..MaxDocs}
\* f"doc_{i}" as i
Ids == 0..(MaxDocs - 1)
\* the lists of ids given to delete_documents and update_documents: the
\* first document, or all
IdLists == {{0}, Ids}
\* the n_results of the queries made; the query text and the filter are fixed,
\* so n_results stands for the cache key
NResults == {1, 2}

Min(a, b) == IF a < b THEN a ELSE b

\* documents[i:i + batch_size]
Slice(documents, i, batch_size) ==
    SubSeq(documents, i + 1, Min(i + batch_size, Len(documents)))

SeqRange(s) == {s[k] : k \in 1..Len(s)}

\* collection.add of a batch under the ids doc_0 .. doc_{len(batch)-1}.  What
\* an empty batch and an id already in the collection do depends on the
\* chromadb release: an error, or nothing
CollectionAdd(coll, batch, emptyRaises, duplicateRaises) ==
    LET ids == {k - 1 : k \in 1..Len(batch)}
    IN  IF batch = <<>>
        THEN [ok |-> ~emptyRaises, coll |-> coll]
        ELSE IF duplicateRaises /\ ids \cap DOMAIN coll # {}
        THEN [ok |-> FALSE, coll |-> coll]
        ELSE [ok |-> TRUE,
              coll |-> [id \in DOMAIN coll \cup ids |->
                           IF id \in DOMAIN coll THEN coll[id] ELSE batch[id + 1]]]

\* collection.delete(ids)
CollectionDelete(coll, ids) == [id \in DOMAIN coll \ ids |-> coll[id]]

\* collection.query with n_results: the documents nearest to the query text,
\* nearness being the order of the ids
QueryResult(coll, n) ==
    {<<id, coll[id]>> : id \in {i \in DOMAIN coll :
                                   Cardinality({j \in DOMAIN coll : j < i}) < n}}

\* lines 78-91 for one batch: the local documents is rebound to the contents
\* of the batch (line 81) before collection.add is called
Submit(s, batch, batch_size, emptyRaises, duplicateRaises) ==
    LET r == CollectionAdd(s.collection, batch, emptyRaises, duplicateRaises)
    IN  [i |-> s.i + batch_size,
         documents |-> batch,
         collection |-> r.coll,
         submitted |-> Append(s.submitted, batch),
         pc |-> IF r.ok THEN "loop" ELSE "raised"]

\* the loop of lines 52-91 from its index s.i on, up to the await of line 66,
\* the end of the range (fixed at entry from the length of the argument) or
\* the exception of collection.add
RECURSIVE AddLoop(_, _, _, _, _, _)
AddLoop(s, batch_size, len, ecache, emptyRaises, duplicateRaises) ==
    IF s.pc = "raised" THEN s
    ELSE IF s.i >= len THEN [s EXCEPT !.pc = "returned"]
    ELSE LET batch == Slice(s.documents, s.i, batch_size)
         IN  IF SeqRange(batch) \ ecache # {}
             THEN [s EXCEPT !.pc = "embedding"]
             ELSE AddLoop(Submit(s, batch, batch_size, emptyRaises, duplicateRaises),
                          batch_size, len, ecache, emptyRaises, duplicateRaises)

NoAnswer == [key |-> 0, result |-> {}]

InitChroma ==
    /\ collection = <<>>
    /\ query_cache = <<>>
    /\ embedding_cache = {}
    /\ apc = "idle"
    /\ ainput = <<>>
    /\ abatch_size = 0
    /\ adocuments = <<>>
    /\ ai = 0
    /\ submitted = <<>>
    /\ answer = NoAnswer

\* a chromadb release that rejects both
InitChromaDefault ==
    /\ InitChroma
    /\ empty_add_raises = TRUE
    /\ duplicate_add_raises = TRUE

\* add_documents is entered, the collection being coll
StartAdd(docs, batch_size, coll) ==
    LET s == AddLoop([i |-> 0, documents |-> docs, collection |-> coll,
                      submitted |-> <<>>, pc |-> "loop"],
                     batch_size, Len(docs), embedding_cache,
                     empty_add_raises, duplicate_add_raises)
    IN  /\ apc = "idle"
        /\ apc' = s.pc
        /\ ainput' = docs
        /\ abatch_size' = batch_size
        /\ adocuments' = s.documents
        /\ ai' = s.i
        /\ submitted' = s.submitted
        /\ collection' = s.collection
        /\ UNCHANGED <<embedding_cache, empty_add_raises, duplicate_add_raises,
                       answer, notChroma>>

\* add_documents(docs, batch_size) up to its first await or its end; the
\* query cache is not touched
AddDocuments(docs, batch_size) ==
    /\ StartAdd(docs, batch_size, collection)
    /\ UNCHANGED query_cache

\* update_documents(docs, ids): delete_documents, which awaits nothing, and
\* add_documents with the default batch size up to its first await or its end
UpdateDocuments(docs, ids) ==
    /\ StartAdd(docs, DefaultBatchSize, CollectionDelete(collection, ids))
    /\ query_cache' = <<>>

\* the executor has the embeddings (lines 66-75); the batch is submitted and
\* the loop goes on
AddEmbedded ==
    /\ apc = "embedding"
    /\ LET batch == Slice(adocuments, ai, abatch_size)
           ecache == embedding_cache \cup SeqRange(batch)
           s == AddLoop(Submit([i |-> ai, documents |-> adocuments,
                                collection |-> collection,
                                submitted |-> submitted, pc |-> "loop"],
                               batch, abatch_size,
                               empty_add_raises, duplicate_add_raises),
                        abatch_size, Len(ainput), ecache,
                        empty_add_raises, duplicate_add_raises)
       IN  /\ embedding_cache' = ecache
           /\ apc' = s.pc
           /\ adocuments' = s.documents
           /\ ai' = s.i
           /\ submitted' = s.submitted
           /\ collection' = s.collection
    /\ UNCHANGED <<query_cache, empty_add_raises, duplicate_add_raises,
                   ainput, abatch_size, answer, notChroma>>

\* add_documents or update_documents has returned or raised to its caller
AddDone ==
    /\ apc \in {"returned", "raised"}
    /\ apc' = "idle"
    /\ ainput' = <<>>
    /\ abatch_size' = 0
    /\ adocuments' = <<>>
    /\ ai' = 0
    /\ submitted' = <<>>
    /\ UNCHANGED <<collection, query_cache, embedding_cache, empty_add_raises,
                   duplicate_add_raises, answer, notChroma>>

\* delete_documents(ids)
DeleteDocuments(ids) ==
    /\ collection' = CollectionDelete(collection, ids)
    /\ query_cache' = <<>>
    /\ UNCHANGED <<embedding_cache, empty_add_raises, duplicate_add_raises,
                   apc, ainput, abatch_size, adocuments, ai, submitted,
                   answer, notChroma>>

\* query_documents with n_results = n: the cached result if there is one,
\* else the collection's, which is cached
QueryDocuments(n) ==
    /\ IF n \in DOMAIN query_cache
       THEN /\ answer' = [key |-> n, result |-> query_cache[n]]
            /\ UNCHANGED query_cache
       ELSE /\ answer' = [key |-> n, result |-> QueryResult(collection, n)]
            /\ query_cache' = [k \in DOMAIN query_cache \cup {n} |->
                                  IF k = n THEN QueryResult(collection, n)
                                  ELSE query_cache[k]]
    /\ UNCHANGED <<collection, embedding_cache, empty_add_raises,
                   duplicate_add_raises, apc, ainput, abatch_size, adocuments,
                   ai, submitted, notChroma>>

NextChroma ==
    \/ \E docs \in DocLists, batch_size \in 1..MaxBatch : AddDocuments(docs, batch_size)
    \/ \E docs \in DocLists, ids \in IdLists : UpdateDocuments(docs, ids)
    \/ AddEmbedded
    \/ AddDone
    \/ \E ids \in IdLists : DeleteDocuments(ids)
    \/ \E n \in NResults : QueryDocuments(n)

(* ---- POST /query of the API ---- *)

\* concurrent POST /query requests
NQueries == 2
Queries == 1..NQueries

\* collection.query and the reading of results['documents'][0]: the documents,
\* an exception of the client, or a result without the expected shape
ChromaOutcomes == {"documents", "ChromaError", "malformed"}

\* client.post: an exception of httpx, or a response with its status and body
\* (a body that is not JSON makes response.json() raise)
ModelOutcomes ==
    {[raised |-> TRUE, status_code |-> 0, body |-> "None"]}
    \cup {[raised |-> FALSE, status_code |-> sc, body |-> b] :
              sc \in {200, 201, 503}, b \in {"generated", "not_json"}}

\* no call of the model service has ended
NoResponse == [raised |-> FALSE, status_code |-> 0, body |-> "None"]

InitApi ==
    /\ qpc = [q \in Queries |-> "idle"]
    /\ qchroma = [q \in Queries |-> "None"]
    /\ qmodel = [q \in Queries |-> NoResponse]
    /\ qstatus = [q \in Queries |-> 0]
    /\ qbody = [q \in Queries |-> "None"]

\* a request body without text: the Query model rejects it before the handler
QueryInvalid(q) ==
    /\ qpc[q] = "idle"
    /\ qpc' = [qpc EXCEPT ![q] = "responded"]
    /\ qstatus' = [qstatus EXCEPT ![q] = 422]
    /\ qbody' = [qbody EXCEPT ![q] = "validation_error"]
    /\ UNCHANGED <<qchroma, qmodel, notApi>>

\* query_documents up to the await of client.post: collection.query is a
\* blocking call, and any exception so far ends in the handler of lines 54-56
QueryStart(q, chroma) ==
    /\ qpc[q] = "idle"
    /\ qchroma' = [qchroma EXCEPT ![q] = chroma]
    /\ IF chroma = "documents"
       THEN /\ qpc' = [qpc EXCEPT ![q] = "posting"]
            /\ UNCHANGED <<qstatus, qbody>>
       ELSE /\ qpc' = [qpc EXCEPT ![q] = "responded"]
            /\ qstatus' = [qstatus EXCEPT ![q] = 500]
            /\ qbody' = [qbody EXCEPT ![q] = "error_detail"]
    /\ UNCHANGED <<qmodel, notApi>>

\* faulty variant of ModelResponds: the status of the response is not looked at
ModelRespondsAnyStatus(q, outcome) ==
    /\ qpc[q] = "posting"
    /\ qmodel' = [qmodel EXCEPT ![q] = outcome]
    /\ qpc' = [qpc EXCEPT ![q] = "responded"]
    /\ IF outcome.raised \/ outcome.body = "not_json"
       THEN /\ qstatus' = [qstatus EXCEPT ![q] = 500]
            /\ qbody' = [qbody EXCEPT ![q] = "error_detail"]
       ELSE /\ qstatus' = [qstatus EXCEPT ![q] = 200]
            /\ qbody' = [qbody EXCEPT ![q] = outcome.body]
    /\ UNCHANGED <<qchroma, notApi>>

\* client.post ends: lines 41-56.  The HTTPException of line 51 is itself an
\* Exception, so line 54 catches it and line 56 raises another 500
ModelResponds(q, outcome) ==
    /\ qpc[q] = "posting"
    /\ qmodel' = [qmodel EXCEPT ![q] = outcome]
    /\ qpc' = [qpc EXCEPT ![q] = "responded"]
    /\ IF outcome.raised \/ outcome.status_code # 200 \/ outcome.body = "not_json"
       THEN /\ qstatus' = [qstatus EXCEPT ![q] = 500]
            /\ qbody' = [qbody EXCEPT ![q] = "error_detail"]
       ELSE /\ qstatus' = [qstatus EXCEPT ![q] = 200]
            /\ qbody' = [qbody EXCEPT ![q] = outcome.body]
    /\ UNCHANGED <<qchroma, notApi>>

\* the response has been sent
QueryDone(q) ==
    /\ qpc[q] = "responded"
    /\ qpc' = [qpc EXCEPT ![q] = "idle"]
    /\ qchroma' = [qchroma EXCEPT ![q] = "None"]
    /\ qmodel' = [qmodel EXCEPT ![q] = NoResponse]
    /\ qstatus' = [qstatus EXCEPT ![q] = 0]
    /\ qbody' = [qbody EXCEPT ![q] = "None"]
    /\ UNCHANGED notApi

NextApi ==
    \/ \E q \in Queries : QueryInvalid(q)
    \/ \E q \in Queries, chroma \in ChromaOutcomes : QueryStart(q, chroma)
    \/ \E q \in Queries, outcome \in ModelOutcomes : ModelResponds(q, outcome)
    \/ \E q \in Queries : QueryDone(q)

NextSecurity ==
    \/ \E r \in Requests, tok \in Tokens \cup {""} : MwEnter(r, tok)
    \/ \E r \in Requests : MwHandlerEnds(r)
    \/ \E r \in Requests : MwDone(r)
    \/ \E t \in Revocable : RevokeToken(t)
    \/ SecTick

\* the breaker and the gateway are not used by the middleware
InitSecuritySpec ==
    /\ now = 0
    /\ InitSecurity
    /\ InitGateway
    /\ cb = CircuitBreaker(ConfiguredThreshold, DefaultResetTimeout)
    /\ cpc = [c \in Callers |-> "idle"]
    /\ InitRetryDefault
    /\ InitPermissions
    /\ InitApi
    /\ InitChromaDefault

SpecSecurity == InitSecuritySpec /\ [][NextSecurity]_vars

\* permission checks while tokens are being revoked
SpecPermissions == InitSecuritySpec /\ [][NextPermissions]_vars

\* concurrent requests of POST /query
SpecApi == InitSecuritySpec /\ [][NextApi]_vars

\* the document store under each chromadb release; nothing else runs
InitChromaSpec ==
    /\ now = 0
    /\ InitChroma
    /\ empty_add_raises \in BOOLEAN
    /\ duplicate_add_raises \in BOOLEAN
    /\ InitSecurity
    /\ InitGateway
    /\ cb = CircuitBreaker(ConfiguredThreshold, DefaultResetTimeout)
    /\ cpc = [c \in Callers |-> "idle"]
    /\ InitRetryDefault
    /\ InitPermissions
    /\ InitApi

\* one writer of the collection at a time, with queries and deletions between
\* its steps
SpecChroma == InitChromaSpec /\ [][NextChroma]_vars

(* ---- concurrent callers of one breaker ---- *)

InitBreaker ==
    /\ cb \in {CircuitBreaker(th, rt) : th \in Thresholds, rt \in ResetTimeouts}
    /\ cpc = [c \in Callers |-> "idle"]

\* faulty variant of CallEnter: a denial is stamped as a failure time
CallEnterDenialStamps(c) ==
    /\ cpc[c] = "idle"
    /\ IF CBDenies(cb, now)
       THEN /\ cpc' = [cpc EXCEPT ![c] = "denied"]
            /\ cb' = [cb EXCEPT !.last_failure_time = now]
       ELSE /\ cb' = CBEnter(cb, now)
            /\ cpc' = [cpc EXCEPT ![c] =
                         IF cb'.state = "half-open" /\ cb.state = "open"
                         THEN "probe" ELSE "running"]
    /\ UNCHANGED <<now, notBreaker>>

\* call(): from entry to the await of func, or to the raise of line 33
CallEnter(c) ==
    /\ cpc[c] = "idle"
    /\ IF CBDenies(cb, now)
       THEN /\ cpc' = [cpc EXCEPT ![c] = "denied"]
            /\ cb' = cb
       ELSE /\ cb' = CBEnter(cb, now)
            /\ cpc' = [cpc EXCEPT ![c] =
                         IF cb'.state = "half-open" /\ cb.state = "open"
                         THEN "probe" ELSE "running"]
    /\ UNCHANGED <<now, notBreaker>>

\* the awaited func returns: lines 37-40
FuncReturns(c) ==
    /\ cpc[c] \in {"running", "probe"}
    /\ cb' = CBSuccess(cb)
    /\ cpc' = [cpc EXCEPT ![c] = "returned"]
    /\ UNCHANGED <<now, notBreaker>>

\* the awaited func raises: lines 41-46
FuncRaises(c) ==
    /\ cpc[c] \in {"running", "probe"}
    /\ cb.failures < MaxFailures
    /\ cb' = CBFailure(cb, now)
    /\ cpc' = [cpc EXCEPT ![c] = "raised"]
    /\ UNCHANGED <<now, notBreaker>>

\* the caller has its result or exception and may call again
CallDone(c) ==
    /\ cpc[c] \in {"denied", "returned", "raised"}
    /\ cpc' = [cpc EXCEPT ![c] = "idle"]
    /\ UNCHANGED <<now, cb, notBreaker>>

Tick ==
    /\ now < MaxTime
    /\ now' = now + 1

NextBreaker ==
    \/ \E c \in Callers : CallEnter(c)
    \/ \E c \in Callers : FuncReturns(c)
    \/ \E c \in Callers : FuncRaises(c)
    \/ \E c \in Callers : CallDone(c)
    \/ Tick /\ UNCHANGED <<breakerVars, gatewayVars, securityVars, retryVars, permVars, apiVars, chromaVars>>

InitBreakerSpec ==
    /\ now = 0
    /\ InitBreaker
    /\ InitGateway
    /\ InitSecurity
    /\ InitRetryDefault
    /\ InitPermissions
    /\ InitApi
    /\ InitChromaDefault

SpecBreaker == InitBreakerSpec /\ [][NextBreaker]_vars

(* ---- recovery of the breaker once its operation succeeds again ---- *)

\* the callers that keep calling
RecoveryCallers == {1, 2}
\* the operation fails up to this time and succeeds from then on; the longest
\* reset timeout can elapse after it before the clock stops
FailingUntil == MaxTime - 3

\* the awaited func raises, while the downstream still fails
FuncRaisesWhileFailing(c) == now <= FailingUntil /\ FuncRaises(c)

BreakerTick ==
    Tick /\ UNCHANGED <<breakerVars, gatewayVars, securityVars, retryVars, permVars, apiVars, chromaVars>>

NextRecovery ==
    \/ \E c \in RecoveryCallers : CallEnter(c)
    \/ \E c \in RecoveryCallers : FuncReturns(c)
    \/ \E c \in RecoveryCallers : FuncRaisesWhileFailing(c)
    \/ \E c \in RecoveryCallers : CallDone(c)
    \/ BreakerTick

\* time advances, calls keep arriving, and the event loop runs every coroutine
\* that is ready: an awaited operation ends, a finished call returns to its caller
FairRecovery ==
    /\ WF_vars(BreakerTick)
    /\ \A c \in RecoveryCallers :
          /\ WF_vars(CallEnter(c))
          /\ WF_vars(FuncReturns(c))
          /\ WF_vars(CallDone(c))

SpecRecovery == InitBreakerSpec /\ [][NextRecovery]_vars /\ FairRecovery

GwTick ==
    /\ now < MaxGwTime
    /\ now' = now + 1
    /\ UNCHANGED <<breakerVars, gatewayVars, securityVars, retryVars, permVars, apiVars, chromaVars>>

NextGateway ==
    \/ \E c \in GwCalls, name \in ServiceNames : GwCall(c, name)
    \/ \E c \in GwCalls : GwRetry(c)
    \/ \E c \in GwCalls, outcome \in Outcomes : GwResponse(c, outcome)
    \/ \E c \in GwCalls : GwDone(c)
    \/ GwTick

\* the breaker object of SpecBreaker is not used by the gateway
InitGatewaySpec ==
    /\ now = 0
    /\ InitGateway
    /\ cb = CircuitBreaker(ConfiguredThreshold, DefaultResetTimeout)
    /\ cpc = [c \in Callers |-> "idle"]
    /\ InitSecurity
    /\ InitRetryDefault
    /\ InitPermissions
    /\ InitApi
    /\ InitChromaDefault

SpecGateway == InitGatewaySpec /\ [][NextGateway]_vars

\* one caller of the gateway while services are being registered
NextRegistry ==
    \/ \E config \in RegisteredLater : GwRegister(config)
    \/ \E name \in {"model", "search"} : GwCall(1, name)
    \/ GwRetry(1)
    \/ \E outcome \in Outcomes : GwResponse(1, outcome)
    \/ GwDone(1)
    \/ GwTick

SpecRegistry == InitGatewaySpec /\ [][NextRegistry]_vars

\* the wrapper decorated with each pair of arguments; nothing else runs
InitRetrySpec ==
    /\ now = 0
    /\ max_retries \in 0..MaxMaxRetries
    /\ retry_delay \in 1..MaxRetryDelay
    /\ InitRetry
    /\ InitGateway
    /\ InitSecurity
    /\ cb = CircuitBreaker(ConfiguredThreshold, DefaultResetTimeout)
    /\ cpc = [c \in Callers |-> "idle"]
    /\ InitPermissions
    /\ InitApi
    /\ InitChromaDefault

SpecRetry == InitRetrySpec /\ [][NextRetry]_vars

(* ---- claims about CircuitBreaker.call ---- *)

\* the breaker has reached its threshold and the reset timeout has not elapsed
Cooldown(b, t) == b.failures >= b.threshold /\ t - b.last_failure_time <= b.reset_timeout

\* C1: once the failure count has reached the threshold the breaker is no
\* longer Closed and is Open for the whole reset timeout, and every call made
\* in that time raises the breaker-open error without its operation being
\* invoked and without changing the breaker.
C1_OpenDeniesDuringCooldown ==
    [][ /\ cb'.failures >= cb'.threshold => cb'.state # "closed"
        /\ Cooldown(cb', now') => cb'.state = "open"
        /\ \A c \in Callers :
              (Cooldown(cb, now) /\ cpc[c] = "idle" /\ cpc'[c] # "idle")
                  => (cpc'[c] = "denied" /\ cb' = cb) ]_vars

\* threshold 3: three failures, then a call inside the timeout is denied
C1_Witness ==
    \E c \in Callers :
        /\ cpc[c] = "denied"
        /\ cb.threshold = 3 /\ cb.failures = 3 /\ cb.state = "open"
        /\ now > cb.last_failure_time
        /\ Cooldown(cb, now)

\* C2: while the HalfOpen probe's operation is in flight, no other caller's
\* operation is invoked.
C2_SingleProbe ==
    [][ \A c \in Callers :
          (cpc[c] = "idle" /\ \E p \in Callers \ {c} : cpc[p] = "probe")
              => cpc'[c] \notin {"running", "probe"} ]_vars

\* C4: a call that succeeds while the breaker is Closed resets the failure
\* count to 0.
C4_SuccessResetsWhenClosed ==
    [][ \A c \in Callers :
          (cb.state = "closed" /\ cpc[c] = "running" /\ cpc'[c] = "returned")
              => cb'.failures = 0 ]_vars

\* C5: when the call admitted as the HalfOpen probe succeeds, the breaker is
\* Closed with failure count 0.
C5_ProbeSuccessCloses ==
    [][ \A c \in Callers :
          (cpc[c] = "probe" /\ cpc'[c] = "returned")
              => (cb'.state = "closed" /\ cb'.failures = 0) ]_vars

\* C6: when the call admitted as the HalfOpen probe fails, the breaker is Open
\* again and last_failure_time is the time of that failure.
C6_ProbeFailureReopens ==
    [][ \A c \in Callers :
          (cpc[c] = "probe" /\ cpc'[c] = "raised")
              => (cb'.state = "open" /\ cb'.last_failure_time = now) ]_vars

\* C7: the breaker leaves Open only in a step in which a call arrives strictly
\* more than reset_timeout after last_failure_time, and that step sets the
\* state to HalfOpen as the call's operation starts; a clock tick or a denied
\* call leaves an Open breaker Open.
C7_LeavesOpenOnlyByLateCall ==
    [][ (cb.state = "open" /\ cb'.state # "open")
          => /\ cb'.state = "half-open"
             /\ now - cb.last_failure_time > cb.reset_timeout
             /\ \E c \in Callers : cpc[c] = "idle" /\ cpc'[c] = "probe" ]_vars

\* a probe is in flight in a HalfOpen breaker, exactly one tick after the timeout
C7_Witness ==
    /\ cb.state = "half-open"
    /\ now - cb.last_failure_time = cb.reset_timeout + 1
    /\ \E c \in Callers : cpc[c] = "probe"

(* ---- claims about ServiceIntegration.call_service ---- *)

\* C3: a gateway call whose retry attempts have all failed has added exactly
\* one failure to its service's breaker, however many network attempts it made.
C3_OneFailurePerGatewayCall ==
    \A c \in GwCalls :
        (gpc[c] = "raised" /\ gerr[c] \in Retryable) => added[c] = 1

(* ---- claims about SecurityMiddleware and SecurityManager ---- *)

\* request r enters the middleware in this step
Enters(r) == rpc[r] = "idle" /\ rpc'[r] # "idle"

\* C8: a request whose verified principal has role Admin reaches the handler
\* and leaves every rate-limit counter as it was.
C8_AdminSkipsRateLimit ==
    [][ \A r \in Requests :
          (/\ Enters(r)
           /\ VerifyToken(rtok'[r], token_blacklist).status = 200
           /\ VerifyToken(rtok'[r], token_blacklist).role = "admin")
              => (rpc'[r] = "handler" /\ rate_limiters' = rate_limiters) ]_vars

\* C9: no step removes a token from the revocation set, verify_token rejects
\* every token of the set with 401 whatever the token decodes to, and a
\* request bearing a revoked token is rejected with 401 without touching the
\* rate limiters.
C9_RevokedStaysRejected ==
    [][ /\ token_blacklist \subseteq token_blacklist'
        /\ \A t \in Tokens :
              VerifyToken(t, token_blacklist' \cup {t}).status = 401
        /\ \A r \in Requests :
              (Enters(r) /\ rtok'[r] \in token_blacklist)
                  => /\ rpc'[r] = "rejected"
                     /\ rstatus'[r] = 401
                     /\ rate_limiters' = rate_limiters ]_vars

\* bob's token, good enough to have been admitted before, is rejected once revoked
C9_Witness ==
    \E r \in Requests :
        /\ rpc[r] = "rejected" /\ rstatus[r] = 401
        /\ rtok[r] = "user_jwt" /\ "user_jwt" \in token_blacklist
        /\ "bob" \in DOMAIN rate_limiters
        /\ VerifyToken("user_jwt", {}).status = 200

\* C10: a request bearing a valid credential whose rate-limit check is denied
\* is rejected with 429 and its handler is never invoked; a request bearing a
\* credential reaches the handler only if verification and the rate-limit check
\* both passed.
C10_DeniedNeverReachesHandler ==
    [][ \A r \in Requests :
          /\ (Enters(r) /\ rtok'[r] # "") =>
                LET user == VerifyToken(rtok'[r], token_blacklist)
                    rl == RateLimitCheck(rate_limiters, user.username, now)
                IN  /\ (user.status = 200 /\ ~rl.allowed)
                          => (rpc'[r] = "rejected" /\ rstatus'[r] = 429)
                    /\ rpc'[r] = "handler" => (user.status = 200 /\ rl.allowed)
          /\ rpc[r] = "rejected" => rpc'[r] \in {"rejected", "idle"} ]_vars

\* bob's request is rejected with 429 at the minute limit
C10_Witness ==
    \E r \in Requests :
        /\ rpc[r] = "rejected" /\ rstatus[r] = 429 /\ rtok[r] = "user_jwt"
        /\ rate_limiters["bob"].minute.count = RATE_LIMIT_MINUTE
        /\ rate_limiters["bob"].hour.count < RATE_LIMIT_HOUR

(* ---- claims about SecurityManager.rate_limit_check ---- *)

\* rate_limit_check runs for request r in this step: r enters bearing a token
\* that verifies
Checked(r) ==
    /\ Enters(r)
    /\ rtok'[r] # ""
    /\ VerifyToken(rtok'[r], token_blacklist).status = 200

\* the principal the check of request r is for
Principal(r) == VerifyToken(rtok'[r], token_blacklist).username

\* the minute window of principal u is due for a reset at time t
MinuteDue(limiters, u, t) == t - limiters[u].minute.reset > MinuteWindow
HourDue(limiters, u, t) == t - limiters[u].hour.reset > HourWindow

\* the counts of principal u at time t, after any due window reset
MinuteCount(limiters, u, t) ==
    IF u \notin DOMAIN limiters \/ MinuteDue(limiters, u, t)
    THEN 0 ELSE limiters[u].minute.count
HourCount(limiters, u, t) ==
    IF u \notin DOMAIN limiters \/ HourDue(limiters, u, t)
    THEN 0 ELSE limiters[u].hour.count

\* C11: whenever, after any due window reset, the principal's minute count has
\* reached the minute limit or its hour count the hour limit, the check denies
\* (the request is rejected with 429) and increments neither counter.
C11_AtLimitDeniesWithoutCounting ==
    [][ \A r \in Requests :
          LET u == Principal(r)
              m == MinuteCount(rate_limiters, u, now)
              h == HourCount(rate_limiters, u, now)
          IN  (Checked(r) /\ (m >= RATE_LIMIT_MINUTE \/ h >= RATE_LIMIT_HOUR))
                  => /\ rpc'[r] = "rejected" /\ rstatus'[r] = 429
                     /\ rate_limiters'[u].minute.count = m
                     /\ rate_limiters'[u].hour.count = h ]_vars

\* bob is denied at the hour limit although his minute window has room
C11_Witness ==
    \E r \in Requests :
        /\ rpc[r] = "rejected" /\ rstatus[r] = 429 /\ rtok[r] = "user_jwt"
        /\ rate_limiters["bob"].hour.count = RATE_LIMIT_HOUR
        /\ rate_limiters["bob"].minute.count < RATE_LIMIT_MINUTE

\* C12: for a principal whose minute and hour counts are both below their
\* limits, the check answers true (the request reaches the handler) and both
\* counts grow by exactly 1.
C12_UnderLimitsAdmitsAndCountsBoth ==
    [][ \A r \in Requests :
          LET u == Principal(r)
              m == MinuteCount(rate_limiters, u, now)
              h == HourCount(rate_limiters, u, now)
          IN  (Checked(r) /\ m < RATE_LIMIT_MINUTE /\ h < RATE_LIMIT_HOUR)
                  => /\ rpc'[r] = "handler"
                     /\ rate_limiters'[u].minute.count = m + 1
                     /\ rate_limiters'[u].hour.count = h + 1 ]_vars

\* alice's second request of a window is in the handler, counted in both windows
C12_Witness ==
    \E r \in Requests :
        /\ rpc[r] = "handler" /\ rtok[r] = "admin_jwt"
        /\ "alice" \in DOMAIN rate_limiters
        /\ rate_limiters["alice"].minute.count = 2
        /\ rate_limiters["alice"].hour.count = 2

\* C13: when the minute window is due and the hour window is not, the check
\* restarts the minute window at the current time, leaves the hour window's
\* start alone, and admits exactly when the hour count is below the hour
\* limit; the hour count changes only by the admission itself.
C13_MinuteResetLeavesHourWindow ==
    [][ \A r \in Requests :
          LET u == Principal(r)
          IN  (/\ Checked(r)
               /\ u \in DOMAIN rate_limiters
               /\ MinuteDue(rate_limiters, u, now)
               /\ ~HourDue(rate_limiters, u, now))
                  => LET old == rate_limiters[u]
                         new == rate_limiters'[u]
                     IN  /\ new.minute.reset = now
                         /\ new.hour.reset = old.hour.reset
                         /\ IF old.hour.count < RATE_LIMIT_HOUR
                            THEN /\ rpc'[r] = "handler"
                                 /\ new.minute.count = 1
                                 /\ new.hour.count = old.hour.count + 1
                            ELSE /\ rpc'[r] = "rejected"
                                 /\ new.minute.count = 0
                                 /\ new.hour.count = old.hour.count ]_vars

\* bob filled a minute window, and is admitted in the next one inside the same hour
C13_Witness ==
    \E r \in Requests :
        /\ rpc[r] = "handler" /\ rtok[r] = "user_jwt"
        /\ rate_limiters["bob"].minute.reset > rate_limiters["bob"].hour.reset
        /\ rate_limiters["bob"].minute.count = 1
        /\ rate_limiters["bob"].hour.count = RATE_LIMIT_MINUTE + 1

\* C14: the check of one request is over before that of another begins, so two
\* requests of one principal in flight together are never both admitted for
\* the last slot of the minute window: once one has taken it, the window is
\* full and a request of the principal entering at that instant is rejected.
C14_LastSlotAdmitsOne ==
    [][ \A r \in Requests :
          LET u == Principal(r)
              m == MinuteCount(rate_limiters, u, now)
          IN  (Checked(r) /\ rpc'[r] = "handler" /\ m = RATE_LIMIT_MINUTE - 1)
                  => /\ rate_limiters'[u].minute.count = RATE_LIMIT_MINUTE
                     /\ MwAdmit(rtok'[r], token_blacklist', rate_limiters', now').status
                            = 429 ]_vars

\* two requests of bob in flight together: one in the handler, the other rejected
C14_Witness ==
    \E r, q \in Requests :
        /\ r # q
        /\ rpc[r] = "handler" /\ rtok[r] = "user_jwt"
        /\ rpc[q] = "rejected" /\ rstatus[q] = 429 /\ rtok[q] = "user_jwt"
        /\ rate_limiters["bob"].minute.count = RATE_LIMIT_MINUTE

\* C15: no principal's minute count exceeds the per-minute limit and no
\* principal's hour count exceeds the per-hour limit.
C15_CountsWithinLimits ==
    \A u \in DOMAIN rate_limiters :
        /\ rate_limiters[u].minute.count <= RATE_LIMIT_MINUTE
        /\ rate_limiters[u].hour.count <= RATE_LIMIT_HOUR

\* a principal has used up both windows
C15_Witness ==
    \E u \in DOMAIN rate_limiters :
        /\ rate_limiters[u].minute.count = RATE_LIMIT_MINUTE
        /\ rate_limiters[u].hour.count = RATE_LIMIT_HOUR

(* ---- claims about with_error_handling ---- *)

\* func raises in this step
FuncFails == wpc = "calling" /\ Len(errors') = Len(errors) + 1

\* C16: when func succeeds on its N-th invocation after N-1 failures, with
\* N <= max_retries, the wrapper returns a result of func after exactly N
\* invocations and invokes func no more: it does not give up while fewer than
\* max_retries invocations have failed, each backoff is followed by one more
\* invocation, and nothing follows the return.
C16_SucceedsAfterNInvocations ==
    [][ /\ (wpc = "calling" /\ wpc' = "returned")
              => /\ invocations' = Len(errors') + 1
                 /\ invocations' <= max_retries
                 /\ wout' \in ReturnValues
        /\ (FuncFails /\ Len(errors') < max_retries) => wpc' = "sleeping"
        /\ (wpc = "sleeping" /\ ~cancel_requested /\ wpc' # "sleeping")
              => (wpc' = "calling" /\ invocations' = invocations + 1)
        /\ wpc = "returned"
              => (wpc' = "idle" \/ (wpc' = "returned" /\ invocations' = invocations)) ]_vars

\* two failures, then the third invocation succeeds
C16_Witness ==
    /\ wpc = "returned"
    /\ max_retries = 3
    /\ Len(errors) = 2
    /\ invocations = 3
    /\ wout = "r2"

\* C17: a call of the wrapper that ends in a raise has invoked func exactly
\* max_retries times, every one of them failed, whatever the exceptions were,
\* and the exception raised is the one of the last invocation; a call returns
\* only if its last invocation did not fail.
C17_RaisesAfterMaxRetries ==
    /\ wpc = "raised"
          => /\ invocations = max_retries
             /\ Len(errors) = max_retries
             /\ max_retries >= 1 => wout = errors[Len(errors)]
    /\ wpc = "returned" => Len(errors) < invocations

\* three failures of three kinds, one of them without a registered handler
C17_Witness ==
    /\ wpc = "raised"
    /\ max_retries = 3
    /\ errors = <<"ModelError", "ValueError", "EmbeddingError">>
    /\ wout = "EmbeddingError"
    /\ handled = 2

RECURSIVE SumSeq(_)
SumSeq(q) == IF q = <<>> THEN 0 ELSE q[1] + SumSeq(Tail(q))

\* C18: the k-th wait of a call is retry_delay * 2^(k-1); there is one wait
\* after each failed invocation but the max_retries-th, so a call that ends
\* in a raise has waited retry_delay * (2^(max_retries - 1) - 1) in all.
C18_ExponentialBackoff ==
    /\ \A k \in 1..Len(sleeps) : sleeps[k] = retry_delay * 2^(k - 1)
    /\ Len(sleeps) = Cardinality({k \in 1..Len(errors) : k < max_retries})
    /\ (wpc = "raised" /\ max_retries >= 1)
          => SumSeq(sleeps) = retry_delay * (2^(max_retries - 1) - 1)

\* max_retries 3 and retry_delay 1: waits of 1 and 2, then the raise
C18_Witness ==
    /\ wpc = "raised"
    /\ max_retries = 3 /\ retry_delay = 1
    /\ sleeps = <<1, 2>>
    /\ SumSeq(sleeps) = 3

\* C19: once the task is cancelled during a backoff wait, the wait does not
\* run to its end and func is not invoked again: the next step of the call
\* raises CancelledError to the caller, and nothing but the caller's taking it
\* follows.
C19_CancelAbandonsBackoff ==
    [][ /\ (wpc = "sleeping" /\ cancel_requested)
              => /\ wpc' \in {"sleeping", "cancelled"}
                 /\ invocations' = invocations
                 /\ wpc' = "cancelled" => wout' = "CancelledError"
        /\ wpc = "cancelled"
              => (wpc' = "idle" \/ (wpc' = "cancelled" /\ invocations' = invocations)) ]_vars

\* cancelled in the first backoff: one invocation, one wait begun, no second invocation
C19_Witness ==
    /\ wpc = "cancelled"
    /\ wout = "CancelledError"
    /\ Len(sleeps) = 1
    /\ invocations = 1
    /\ max_retries >= 2

(* ---- claims about the gateway's retries ---- *)

\* C20: an attempt of a gateway call made while its service's breaker is Open
\* and the reset timeout has not elapsed ends the call at once with the
\* breaker-open error: no network request is made for it, the breaker is left
\* as it was, and the call makes no further attempt, whether the denial meets
\* the call's first attempt or one after a backoff.
C20_DenialIsNotRetried ==
    [][ \A c \in GwCalls :
          /\ (/\ gpc[c] \in {"idle", "backoff"}
              /\ gpc'[c] # gpc[c]
              /\ gsvc'[c] \in DOMAIN circuit_breakers
              /\ circuit_breakers[gsvc'[c]].state = "open"
              /\ now - circuit_breakers[gsvc'[c]].last_failure_time
                    <= circuit_breakers[gsvc'[c]].reset_timeout)
                => /\ gpc'[c] = "raised"
                   /\ gerr'[c] = "CircuitOpen"
                   /\ circuit_breakers' = circuit_breakers
          /\ (gpc[c] = "raised" /\ gerr[c] = "CircuitOpen")
                => /\ gpc'[c] \in {"raised", "idle"}
                   /\ tries'[c] \in {tries[c], 0} ]_vars

\* the breaker opened while the call was backing off: its second attempt is denied
C20_Witness ==
    \E c \in GwCalls :
        /\ gpc[c] = "raised" /\ gerr[c] = "CircuitOpen"
        /\ tries[c] = 2
        /\ added[c] = 1
        /\ circuit_breakers[gsvc[c]].state = "open"

(* ---- claims about the gateway's errors, records and registry ---- *)

\* the breaker of the service gateway call c is for, before and after the step
BreakerOf(c) == circuit_breakers[gsvc[c]]
BreakerAfter(c) == circuit_breakers'[gsvc[c]]

\* C21: a gateway call for a name that is not registered ends at once with
\* the unknown-service error: no request is made, no breaker changes, and the
\* call makes no second attempt.
C21_UnknownServiceFailsFast ==
    [][ \A c \in GwCalls :
          /\ (gpc[c] = "idle" /\ gpc'[c] # "idle" /\ gsvc'[c] \notin DOMAIN services)
                => /\ gpc'[c] = "raised"
                   /\ gerr'[c] = "ValueError"
                   /\ recorded'[c] = 0
                   /\ circuit_breakers' = circuit_breakers
          /\ (gpc[c] = "raised" /\ gerr[c] = "ValueError")
                => /\ tries[c] = 1
                   /\ gpc'[c] \in {"raised", "idle"} ]_vars

\* a call for the unregistered name has failed while a registered service's
\* breaker holds failures
C21_Witness ==
    \E c \in GwCalls :
        /\ gpc[c] = "raised" /\ gerr[c] = "ValueError"
        /\ gsvc[c] = "search" /\ "search" \notin DOMAIN services
        /\ circuit_breakers["model"].failures > 0

\* C22: a gateway call makes no more network attempts than the retry_count of
\* its service's configuration, and one that ends with a transient error has
\* made exactly retry_count of them.
C22_AttemptsFollowRetryCount ==
    \A c \in GwCalls :
        (gpc[c] # "idle" /\ gsvc[c] \in DOMAIN services)
            => /\ recorded[c] <= services[gsvc[c]].retry_count
               /\ (gpc[c] = "raised" /\ gerr[c] \in Retryable)
                     => recorded[c] = services[gsvc[c]].retry_count

\* C23: a finished gateway call to a registered service has incremented the
\* request counter at least once, whatever its outcome.
C23_EveryCallRecorded ==
    \A c \in GwCalls :
        (gpc[c] \in {"returned", "raised"} /\ gsvc[c] \in DOMAIN services)
            => recorded[c] >= 1

\* C24: a gateway call that fails because its payload cannot be serialized
\* leaves its service's breaker as it was.
C24_SerializationFailsLocally ==
    [][ \A c \in GwCalls :
          (gpc[c] = "inflight" /\ gpc'[c] = "raised" /\ gerr'[c] = "SerializationError")
              => BreakerAfter(c) = BreakerOf(c) ]_vars

\* C25: an attempt that ends in a timeout, a connection error or a non-2xx
\* status adds 1 to the failure count of its service's breaker and sets
\* last_failure_time to the time of the failure, and the call goes on to
\* another attempt unless that was its last; after the backoff the next
\* attempt is made or is denied by the breaker.
C25_TransientFailureCountsTwice ==
    [][ \A c \in GwCalls :
          /\ (/\ gpc[c] = "inflight"
              /\ \/ gpc'[c] = "backoff"
                 \/ gpc'[c] = "raised" /\ gerr'[c] \in Retryable)
                => /\ BreakerAfter(c).failures = BreakerOf(c).failures + 1
                   /\ BreakerAfter(c).last_failure_time = now
                   /\ gpc'[c] = "backoff" <=> tries[c] < MaxTries
          /\ (gpc[c] = "backoff" /\ gpc'[c] # "backoff")
                => /\ tries'[c] = tries[c] + 1
                   /\ \/ gpc'[c] = "inflight"
                      \/ gpc'[c] = "raised" /\ gerr'[c] = "CircuitOpen" ]_vars

\* a call backs off after a failure that its breaker has just counted
C25_Witness ==
    \E c \in GwCalls :
        /\ gpc[c] = "backoff" /\ tries[c] = 2
        /\ now > 0
        /\ circuit_breakers[gsvc[c]].last_failure_time = now
        /\ circuit_breakers[gsvc[c]].failures >= 2

\* C26: a gateway call returns only from an attempt whose request succeeded,
\* one the breaker counted no failure for; an attempt whose failure the
\* breaker counted ends in a backoff or a raise; every raise carries its
\* error, and a raised call makes no further step but handing it to its caller.
C26_NoFailureSwallowed ==
    [][ \A c \in GwCalls :
          /\ (gpc[c] # "returned" /\ gpc'[c] = "returned")
                => /\ gpc[c] = "inflight"
                   /\ BreakerAfter(c).failures <= BreakerOf(c).failures
                   /\ BreakerAfter(c).last_failure_time = BreakerOf(c).last_failure_time
          /\ (gpc[c] = "inflight" /\ gpc'[c] # "inflight"
                /\ BreakerAfter(c).failures > BreakerOf(c).failures)
                => gpc'[c] \in {"backoff", "raised"}
          /\ gpc'[c] = "raised"
                => gerr'[c] \in {"ValueError", "CircuitOpen"} \cup (Outcomes \ {"ok"})
          /\ gpc[c] = "raised"
                => (gpc'[c] = "idle" \/ (gpc'[c] = "raised" /\ gerr'[c] = gerr[c])) ]_vars

\* a call has used up its three attempts and raised the last timeout
C26_Witness ==
    \E c \in GwCalls :
        /\ gpc[c] = "raised" /\ gerr[c] = "TimeoutError"
        /\ tries[c] = MaxTries
        /\ recorded[c] = MaxTries
        /\ added[c] >= 1

\* C28: register_service(config) makes config the configuration of its name,
\* adding the name or replacing what it had, and leaves every other name's
\* configuration alone; no other step changes any configuration, so two
\* resolutions of a name with no registration between them are equal.
C28_RegisterOverwritesByName ==
    [][ /\ \A config \in RegisteredLater :
              GwRegister(config)
                  => /\ DOMAIN services' = DOMAIN services \cup {config.name}
                     /\ services'[config.name] = config
                     /\ \A n \in DOMAIN services \ {config.name} :
                            services'[n] = services[n]
        /\ (~ \E config \in RegisteredLater : GwRegister(config))
              => services' = services ]_vars

\* the name was registered again, with another configuration, while a call
\* made under the earlier registration was in flight
C28_Witness ==
    /\ detached[1]
    /\ gsvc[1] = "search"
    /\ services["search"].retry_count = 1
    /\ services["search"].circuit_breaker_threshold = 2
    /\ tries[1] = 2

\* C30: a breaker that is Open has a failure count of at least its threshold.
C30_OpenImpliesThresholdReached ==
    cb.state = "open" => cb.failures >= cb.threshold

\* the breaker is Open with more failures than its threshold while a call
\* admitted earlier is still running
C30_Witness ==
    /\ cb.state = "open"
    /\ cb.failures > cb.threshold
    /\ \E c \in Callers : cpc[c] = "running"

(* ---- claims about permissions and POST /query ---- *)

\* the check made in this step is the one of a require_permissions route
RouteChecked == ppc = "idle" /\ ppc' = "require_permissions"

\* C27: a route declared with required permissions denies with 403 a verified
\* principal that is not an admin and whose permissions do not include all
\* the required ones, and admits a verified principal whose permissions
\* include them all.
C27_PermissionsDecideAccess ==
    [][ RouteChecked /\ VerifyToken(ptok', token_blacklist).status = 200 =>
          /\ ( /\ VerifyToken(ptok', token_blacklist).role # "admin"
               /\ ~(preq' \subseteq JwtPermissions(ptok')) )
                 => pres'.status = 403
          /\ preq' \subseteq JwtPermissions(ptok') => pres'.status = 200 ]_vars

\* C29: POST /query responds 500 whenever the vector-store query fails or the
\* model-service call fails or returns a status other than 200, and its
\* response carries the model service's body only when the vector-store
\* query and the model call both succeeded.
C29_QueryFailsAsServerError ==
    \A q \in Queries :
        /\ (qpc[q] = "responded" /\ qchroma[q] \in {"ChromaError", "malformed"})
              => qstatus[q] = 500
        /\ ( /\ qpc[q] = "responded"
             /\ qchroma[q] = "documents"
             /\ (qmodel[q].raised \/ qmodel[q].status_code # 200) )
              => qstatus[q] = 500
        /\ (qstatus[q] = 200 \/ qbody[q] \in {"generated", "not_json"})
              => /\ qchroma[q] = "documents"
                 /\ ~qmodel[q].raised
                 /\ qmodel[q].status_code = 200
                 /\ qstatus[q] = 200
                 /\ qbody[q] = qmodel[q].body

\* one request answered with the model's body while another, whose model call
\* came back with a body and status 503, is answered 500
C29_Witness ==
    \E q1, q2 \in Queries :
        /\ qpc[q1] = "responded" /\ qstatus[q1] = 200 /\ qbody[q1] = "generated"
        /\ qpc[q2] = "responded" /\ qstatus[q2] = 500
        /\ qmodel[q2].status_code = 503 /\ qmodel[q2].body = "generated"

(* ---- claims about the isolation and recovery of breakers ---- *)

\* C32: a breaker that is Open or HalfOpen, once its operation always succeeds
\* while time advances and calls keep arriving, eventually is Closed again
\* with failure count 0.
C32_BreakerRecovers ==
    (cb.state # "closed") ~> (cb.state = "closed" /\ cb.failures = 0)

\* Closed with no failures counted, after a failure later than time 0: the
\* breaker has been Open and HalfOpen, and a call has closed it
C32_Witness ==
    /\ cb.state = "closed"
    /\ cb.failures = 0
    /\ cb.last_failure_time > 0
    /\ cb.threshold >= 2
    /\ \E c \in RecoveryCallers : cpc[c] = "returned"

\* the service the step of gateway call c is for
Routed(c) == IF gpc[c] = "idle" THEN gsvc'[c] ELSE gsvc[c]

\* C31: the breakers are per service: a step of a gateway call to one service,
\* whatever its outcome, leaves the state, the failure count and the
\* last_failure_time of every other service's breaker as they were.
C31_BreakersPerService ==
    [][ \A c \in GwCalls :
            gpc'[c] # gpc[c] =>
                \A n \in DOMAIN circuit_breakers \ {Routed(c)} :
                    /\ n \in DOMAIN circuit_breakers'
                    /\ circuit_breakers'[n] = circuit_breakers[n] ]_vars

\* the breaker of one service is Open while a call to the other service, whose
\* breaker has counted one failure, is in flight
C31_Witness ==
    /\ circuit_breakers["model"].state = "open"
    /\ circuit_breakers["chroma"].state = "closed"
    /\ circuit_breakers["chroma"].failures = 1
    /\ \E c \in GwCalls : gpc[c] = "inflight" /\ gsvc[c] = "chroma"

\* C33: a call the Open breaker denies leaves the breaker's state, failure
\* count and last_failure_time unchanged, so that the time at which the
\* breaker next admits a call is not moved.
C33_DenialLeavesBreaker ==
    [][ \A c \in Callers :
            (cpc[c] = "idle" /\ cpc'[c] = "denied") =>
                /\ cb'.state = cb.state
                /\ cb'.failures = cb.failures
                /\ cb'.last_failure_time = cb.last_failure_time
                /\ \A t \in 0..MaxTime : CBDenies(cb', t) <=> CBDenies(cb, t) ]_vars

\* calls denied after the time of the last failure, with time left in the
\* reset timeout
C33_Witness ==
    /\ cb.state = "open"
    /\ now > cb.last_failure_time
    /\ Cardinality({c \in Callers : cpc[c] = "denied"}) >= 2

\* C34: registering a name again replaces its breaker by a new one, Closed
\* with failure count 0 and the new configuration's threshold, whatever the
\* replaced breaker had counted; and the names that are registered are always
\* the names that have a breaker.
C34_ReregisterFreshBreaker ==
    /\ DOMAIN services = DOMAIN circuit_breakers
    /\ [][ /\ DOMAIN services' = DOMAIN circuit_breakers'
           /\ \A config \in RegisteredLater :
                 GwRegister(config) =>
                     circuit_breakers'[config.name] =
                         CircuitBreaker(config.circuit_breaker_threshold,
                                        DefaultResetTimeout) ]_vars

\* the caller's failures opened the breaker of "search" (threshold 1), and the
\* name has been registered again since: its breaker is new
C34_Witness ==
    /\ gsvc[1] = "search"
    /\ gerr[1] = "CircuitOpen"
    /\ added[1] >= 1
    /\ circuit_breakers["search"] = CircuitBreaker(2, DefaultResetTimeout)

(* ---- claims about the isolation of rate limits and their order ---- *)

\* C35: the rate-limit state is per principal: a check for one principal,
\* admitted or denied, leaves the counts and window starts of every other
\* principal as they were; a principal has no windows until its first check,
\* which creates both at the current time with count 0 and counts the
\* admission; and nothing but a check changes any window.
C35_RateLimitsPerPrincipal ==
    [][ /\ \A r \in Requests :
              Checked(r) =>
                  LET u == Principal(r)
                  IN  /\ DOMAIN rate_limiters' = DOMAIN rate_limiters \cup {u}
                      /\ \A v \in DOMAIN rate_limiters \ {u} :
                             rate_limiters'[v] = rate_limiters[v]
                      /\ u \notin DOMAIN rate_limiters =>
                             /\ rpc'[r] = "handler"
                             /\ rate_limiters'[u].minute = [count |-> 1, reset |-> now]
                             /\ rate_limiters'[u].hour = [count |-> 1, reset |-> now]
        /\ (~ \E r \in Requests : Checked(r)) => rate_limiters' = rate_limiters ]_vars

\* alice's minute window is full and old; bob, first checked later, is in the
\* handler with his own new windows
C35_Witness ==
    /\ DOMAIN rate_limiters = {"alice", "bob"}
    /\ rate_limiters["alice"].minute.count = RATE_LIMIT_MINUTE
    /\ rate_limiters["bob"].minute.count = 1
    /\ rate_limiters["bob"].minute.reset > rate_limiters["alice"].minute.reset + MinuteWindow
    /\ \E r \in Requests : rpc[r] = "handler" /\ rtok[r] = "user_jwt"

\* C36: a request whose token does not verify (it does not decode, names no
\* subject or role, or is revoked) is rejected with the status of the
\* verification, never reaches the handler, and changes no principal's
\* windows: verification comes before the quota is consumed.
C36_VerificationBeforeQuota ==
    [][ \A r \in Requests :
            ( /\ Enters(r)
              /\ rtok'[r] # ""
              /\ VerifyToken(rtok'[r], token_blacklist).status # 200 )
                => /\ rpc'[r] = "rejected"
                   /\ rstatus'[r] = VerifyToken(rtok'[r], token_blacklist).status
                   /\ rstatus'[r] \in {401, 500}
                   /\ rate_limiters' = rate_limiters ]_vars

\* bob's token, used once and then revoked, is rejected with 401 while his
\* windows still count the one request
C36_Witness ==
    \E r \in Requests :
        /\ rpc[r] = "rejected" /\ rstatus[r] = 401 /\ rtok[r] = "user_jwt"
        /\ "user_jwt" \in token_blacklist
        /\ "bob" \in DOMAIN rate_limiters
        /\ rate_limiters["bob"].minute.count = 1
        /\ rate_limiters["bob"].hour.count = 1

(* ---- claims about OptimizedChromaDB ---- *)

\* the documents of the batches, in the order they were submitted
RECURSIVE Concat(_)
Concat(batches) ==
    IF batches = <<>> THEN <<>> ELSE Head(batches) \o Concat(Tail(batches))

\* C37: add_documents called with more documents than batch_size, when it
\* returns, has submitted every document it was given exactly once and in
\* order, in batches of at least one and at most batch_size documents.
C37_EveryDocumentSubmittedOnce ==
    (apc = "returned" /\ Len(ainput) > abatch_size) =>
        /\ Concat(submitted) = ainput
        /\ \A k \in 1..Len(submitted) :
              Len(submitted[k]) \in 1..abatch_size

\* C38: a query made while no add or update is in progress is answered with
\* what the collection answers at that time, never with a result cached
\* before the collection was last modified.
C38_NoStaleAnswer ==
    [][ \A n \in NResults :
            (QueryDocuments(n) /\ apc # "embedding") =>
                answer'.result = QueryResult(collection, n) ]_vars

====
